---------------------------- MODULE Spec2Model ----------------------------
(***************************************************************************)
(* Model of the chat-export extension's background orchestrator            *)
(* (service worker): the message router, startProcessing / processQueue,   *)
(* forwardToContentScript, clearData and exportToFile, together with the   *)
(* environment they talk to (the tab query, the page-side content script,  *)
(* chrome.storage.local and the progress feed).                            *)
(*                                                                         *)
(* The service worker is single-threaded: a handler runs without           *)
(* interruption until it reaches an await.  Every action below is one such *)
(* uninterrupted stretch of code, from the event that resumes it to the    *)
(* next await or return.                                                   *)
(***************************************************************************)
EXTENDS Integers, Sequences, FiniteSets, TLC

(***************************************************************************)
(* Bounds of the model.                                                    *)
(***************************************************************************)
MaxRuns == 2        \* processQueue invocations alive at the same time
MaxQueueLen == 2    \* length of the selectedChatKeys list of a request
MaxMsgs == 1        \* settings.messagesPerChat of the requests
MaxRestored == 1    \* length of a list that exportToFile finds in storage

\* the conversation list of the page, as scanned: the chatKeys in list order
ScannedKeys == << "k1", "k2", "k3", "k4" >>

(***************************************************************************)
(* Sequences.                                                              *)
(***************************************************************************)
Last(s) == s[Len(s)]

IsPrefix(s, t) == /\ Len(s) <= Len(t)
                  /\ \A j \in 1..Len(s) : s[j] = t[j]

(***************************************************************************)
(* Error strings of the program.                                           *)
(***************************************************************************)
ErrNoTab == "No supported messaging tab found. Open LinkedIn Messaging, Sales Navigator Inbox, Instagram DMs, WhatsApp Web, or Telegram Web."
ErrNotResponding == "Content script not responding. Try refreshing the page."
ErrCouldNotOpen == "Could not open chat"
ErrRenderTimeout == "Messages did not render in time"

(***************************************************************************)
(* String.prototype.includes over the error strings above: the fragments   *)
(* the orchestrator looks for, and which error strings contain them.       *)
(***************************************************************************)
Includes(str, fragment) ==
    CASE fragment = "not responding"      -> str \in {ErrNotResponding}
      [] fragment = "does not exist"      -> FALSE
      [] fragment = "Could not establish" -> FALSE
      [] OTHER -> FALSE

ContentScriptLost_Always(error) == TRUE

\* the test of the fatal branch of processQueue
ContentScriptLost(error) ==
    \/ Includes(error, "not responding")
    \/ Includes(error, "does not exist")
    \/ Includes(error, "Could not establish")

(***************************************************************************)
(* Dates.  Instants are integers; day d spans d*100 .. d*100+99 of         *)
(* universal time.  new Date(s): the instant of a date string, or none     *)
(* (Invalid Date).  A date without a time is read as universal time, a     *)
(* date with a time and without an offset as local time, and a time with   *)
(* a 'Z' as universal time; zone is the offset of local time (local =      *)
(* universal + zone, in the same units: 3 hours are 12).                   *)
(***************************************************************************)
NewDate(s, zone) ==
    CASE s = "2024-01-05T10:00:00" -> {540 - zone}
      [] s = "2024-01-05T23:00:00" -> {596 - zone}
      [] s = "2024-01-06"          -> {600}
      [] s = "2024-01-06T00:30:00" -> {602 - zone}
      [] s = "2024-01-06T12:00:00Z" -> {650}
      [] s = "2024-01-06T23:59:59" -> {699 - zone}
      [] s = "2024-01-07T09:30:00" -> {730 - zone}
      [] OTHER -> {}

\* dateTo + 'T23:59:59'
EndOfDay(s) == IF s = "2024-01-06" THEN "2024-01-06T23:59:59" ELSE "Invalid"

parseLooseDate(raw, zone) == IF raw = "" THEN {} ELSE NewDate(raw, zone)

NoSettings == [none |-> TRUE]

filterMessages(messages, settings, zone) ==
    IF settings = NoSettings THEN messages
    ELSE LET keep(msg) ==
                 IF settings.dateFrom # "" \/ settings.dateTo # ""
                 THEN LET msgDate == parseLooseDate(msg.messageDateRaw, zone) IN
                      \A d \in msgDate :
                         /\ ~(settings.dateFrom # ""
                              /\ \E f \in NewDate(settings.dateFrom, zone) : d < f)
                         /\ ~(settings.dateTo # ""
                              /\ \E t \in NewDate(EndOfDay(settings.dateTo), zone) : d > t)
                 ELSE TRUE
         IN  SelectSeq(messages, keep)

(***************************************************************************)
(* Inputs.                                                                 *)
(***************************************************************************)
\* the settings of the side panel: a date range that is open at its end
SettingsInputs == { [dateFrom |-> "2024-01-06", dateTo |-> ""] }

\* the side panel sends the chats selected one by one: it keeps them free
\* of duplicates and sends no request for an empty selection
QueueInputs == {SubSeq(ScannedKeys, 1, n) : n \in 1..MaxQueueLen}

\* raw dates of the user's messages of a conversation, in document order
PageDates == << "2024-01-05T10:00:00", "Yesterday", "2024-01-07T09:30:00" >>

\* the number of messages the user wrote in each conversation of the page
UserMessageCount(chatKey) ==
    CASE chatKey = "k1" -> 1
      [] chatKey = "k2" -> 2
      [] chatKey = "k3" -> 3
      [] OTHER -> 0

\* the position of a conversation in the list
KeyIndex(chatKey) ==
    CHOOSE j \in 1..Len(ScannedKeys) : ScannedKeys[j] = chatKey

Min(a, b) == IF a < b THEN a ELSE b

ExtractedMessage(chatKey, j) ==
    [chatKey |-> chatKey,
     messageDateRaw |->
         PageDates[((KeyIndex(chatKey) + j - 2) % Len(PageDates)) + 1]]

\* the result object of a successful extractChat: the first n messages of
\* the user, n = settings.messagesPerChat
MessagesResult(chatKey) ==
    [kind |-> "messages", chatKey |-> chatKey,
     messages |-> [j \in 1..Min(MaxMsgs, UserMessageCount(chatKey)) |->
                      ExtractedMessage(chatKey, j)]]

ErrorResult(chatKey, error) ==
    [kind |-> "error", chatKey |-> chatKey, error |-> error]

\* the errors extractChat returns for one conversation
ConversationErrors == {ErrCouldNotOpen, ErrRenderTimeout}

\* the page of the model: a conversation that fails does so in one way, the
\* odd ones are not found in the list, the even ones do not render in time
PageError(chatKey) ==
    IF KeyIndex(chatKey) % 2 = 1 THEN ErrCouldNotOpen ELSE ErrRenderTimeout

\* what chrome.tabs.sendMessage resolves with for extractChat: the result
\* object of the content script
ExtractChatResults(chatKey) ==
    {MessagesResult(chatKey), ErrorResult(chatKey, PageError(chatKey))}

(***************************************************************************)
(* State.                                                                  *)
(***************************************************************************)
VARIABLES
    extractedMessages,  \* let extractedMessages
    runState,           \* let runState
    isProcessing,       \* let isProcessing
    currentTabId,       \* let currentTabId (0 models null)
    storage,            \* chrome.storage.local, key 'extractedMessages'
    runs,               \* the processQueue invocations that have not returned
    progressUpdate,     \* the progressUpdate notification the last step sent
    export,             \* the exportToFile invocation in progress
    page,               \* the messaging page: the document the content script reads
    ex,                 \* the content script: extractChat and its module state
    scan,               \* the content script: the scanInbox invocation
    match               \* an application of the sender attribution

vars == << extractedMessages, runState, isProcessing, currentTabId, storage,
           runs, progressUpdate, export, page, ex, scan, match >>

\* the variables of the service worker, and those of the content script
orchestratorVars == << extractedMessages, runState, isProcessing, currentTabId,
                       storage, runs, progressUpdate, export >>
contentVars == << page, ex, scan, match >>

RunIds == 1..MaxRuns

EmptyRunState == [selectedChatKeys |-> <<>>, excludedChatKeys |-> <<>>,
                  processedChatKeys |-> <<>>, failures |-> <<>>]

NotStored == [present |-> FALSE, extractedMessages |-> <<>>]
Stored(messages) == [present |-> TRUE, extractedMessages |-> messages]

NoRun == [pc |-> "none"]
ExportIdle == [pc |-> "idle"]
NoProgress == [run |-> 0, payload |-> [status |-> "none"]]

\* the content script at rest, on a page that is not looked at
NoPage == [open |-> "none"]
NoExtraction == [pc |-> "idle"]
NoScan == [pc |-> "idle"]
NoMatch == [pc |-> "idle"]

\* the service worker as constructed
OrchestratorInit ==
    /\ extractedMessages = <<>>
    /\ runState = EmptyRunState
    /\ isProcessing = FALSE
    /\ currentTabId = 0
    /\ storage = NotStored
    /\ runs = [r \in RunIds |-> NoRun]
    /\ progressUpdate = NoProgress
    /\ export = ExportIdle

Init ==
    /\ OrchestratorInit
    /\ page = NoPage
    /\ ex = NoExtraction
    /\ scan = NoScan
    /\ match = NoMatch

(***************************************************************************)
(* The orchestrator's state as one record, so that the synchronous         *)
(* stretches of processQueue can be composed as functions.                 *)
(***************************************************************************)
Cur == [extractedMessages |-> extractedMessages, runState |-> runState,
        isProcessing |-> isProcessing, storage |-> storage, runs |-> runs,
        progressUpdate |-> NoProgress]

\* a processQueue invocation that has returned is gone
Becomes(st) ==
    /\ extractedMessages' = st.extractedMessages
    /\ runState' = st.runState
    /\ isProcessing' = st.isProcessing
    /\ storage' = st.storage
    /\ runs' = [r \in RunIds |->
                  IF st.runs[r].pc = "returned" THEN NoRun ELSE st.runs[r]]
    /\ progressUpdate' = st.progressUpdate

\* chrome.runtime.sendMessage({action: 'progressUpdate', payload: data}).
\* Bookkeeping: run is the processQueue invocation that sent it.
broadcastProgress(st, r, data) ==
    [st EXCEPT !.progressUpdate = [run |-> r, payload |-> data]]

ProcessingSnapshot(st, r) ==
    LET run == st.runs[r] IN
    [status |-> "processing",
     current |-> run.queue[run.i],
     processed |-> Len(st.runState.processedChatKeys),
     total |-> Len(run.queue),
     failures |-> Len(st.runState.failures),
     messageCount |-> Len(st.extractedMessages)]

DoneSnapshot(st, r) ==
    [status |-> "done",
     processed |-> Len(st.runState.processedChatKeys),
     total |-> Len(st.runs[r].queue),
     failures |-> Len(st.runState.failures),
     messageCount |-> Len(st.extractedMessages)]

CancelledSnapshot(st, r) == [status |-> "cancelled"]

LoopHead_SilentCancel(st, r) ==
    LET run == st.runs[r] IN
    IF run.i > Len(run.queue)
    THEN [st EXCEPT !.isProcessing = FALSE,
                    !.storage = Stored(st.extractedMessages),
                    !.runs[r].pc = "storageSet"]
    ELSE IF ~st.isProcessing
    THEN [st EXCEPT !.runs[r].pc = "returned"]
    ELSE [broadcastProgress(st, r, ProcessingSnapshot(st, r))
             EXCEPT !.runs[r].pc = "getActiveTab"]

(***************************************************************************)
(* The head of the for loop of processQueue for run r, whose next item is  *)
(* runs[r].i: the cancellation check, the 'processing' snapshot and the    *)
(* call of forwardToContentScript up to its first await; or, past the last *)
(* item, the code after the loop up to the await of storage.set.           *)
(***************************************************************************)
LoopHead(st, r) ==
    LET run == st.runs[r] IN
    IF run.i > Len(run.queue)
    THEN [st EXCEPT !.isProcessing = FALSE,
                    !.storage = Stored(st.extractedMessages),
                    !.runs[r].pc = "storageSet"]
    ELSE IF ~st.isProcessing
    THEN [broadcastProgress(st, r, CancelledSnapshot(st, r))
             EXCEPT !.runs[r].pc = "returned"]
    ELSE [broadcastProgress(st, r, ProcessingSnapshot(st, r))
             EXCEPT !.runs[r].pc = "getActiveTab"]

\* queue.indexOf(chatKey), 1-based
IndexOf(queue, chatKey) ==
    CHOOSE j \in 1..Len(queue) :
        /\ queue[j] = chatKey
        /\ \A h \in 1..(j - 1) : queue[h] # chatKey

(***************************************************************************)
(* The end of one iteration: the pacing delay, or straight on to the next  *)
(* iteration.                                                              *)
(***************************************************************************)
AfterItem(st, r) ==
    LET run == st.runs[r]
        chatKey == run.queue[run.i]
        next == [st EXCEPT !.runs[r].i = @ + 1]
    IN  IF st.isProcessing /\ IndexOf(run.queue, chatKey) < Len(run.queue)
        THEN [next EXCEPT !.runs[r].pc = "sleep"]
        ELSE LoopHead(next, r)

(***************************************************************************)
(* The body of the try block after forwardToContentScript has returned     *)
(* result for the current item of run r.  The content script always        *)
(* answers with a result object, so the catch block is never entered.      *)
(* Bookkeeping: succeeded is the number of items of this run that          *)
(* succeeded.                                                              *)
(***************************************************************************)
HandleResult(st, r, result) ==
    LET run == st.runs[r]
        chatKey == run.queue[run.i]
    IN
    IF result.kind = "error"
    THEN LET failed == [st EXCEPT
                !.runState.failures =
                    Append(@, [chatKey |-> chatKey, reason |-> result.error])]
         IN  IF ContentScriptLost(result.error)
             THEN LET stopped == [failed EXCEPT
                          !.isProcessing = FALSE,
                          !.runs[r].pc = "returned"]
                  IN  broadcastProgress(stopped, r, DoneSnapshot(stopped, r))
             ELSE AfterItem(failed, r)
    ELSE LET filtered == filterMessages(result.messages, run.settings, 0) IN
         AfterItem([st EXCEPT
            !.extractedMessages = @ \o filtered,
            !.runState.processedChatKeys = Append(@, chatKey),
            !.runs[r].succeeded = @ + 1], r)

(***************************************************************************)
(* Requests of the side panel.                                             *)
(***************************************************************************)
NewRun(queue, settings) ==
    [queue |-> queue, settings |-> settings, i |-> 1, pc |-> "start",
     succeeded |-> 0, cancelled |-> FALSE]

\* case 'processQueue' while isProcessing
\* the response {error: 'Already processing'}; nothing changes
StartRejected ==
    /\ isProcessing
    /\ progressUpdate' = NoProgress
    /\ UNCHANGED << extractedMessages, runState, isProcessing, currentTabId,
                    storage, runs, export,
                    contentVars >>

Live(r) == runs[r].pc # "none"

\* case 'processQueue': startProcessing and processQueue up to its first await
startProcessing(selectedChatKeys, settings) ==
    /\ ~isProcessing
    /\ \E free \in RunIds : ~Live(free)
    /\ LET r == CHOOSE free \in RunIds :
                   ~Live(free) /\ \A lower \in 1..(free - 1) : Live(lower)
           queue == selectedChatKeys
           reset == [Cur EXCEPT
               !.runState = [selectedChatKeys |-> selectedChatKeys,
                             excludedChatKeys |-> <<>>,
                             processedChatKeys |-> <<>>,
                             failures |-> <<>>],
               !.extractedMessages = <<>>,
               !.isProcessing = TRUE,
               !.runs[r] = NewRun(queue, settings)]
       IN  Becomes(LoopHead(reset, r))
    /\ UNCHANGED << currentTabId, export,
                    contentVars >>

StartAccepted ==
    \E selectedChatKeys \in QueueInputs, settings \in SettingsInputs :
        startProcessing(selectedChatKeys, settings)

\* case 'cancelProcessing'.  Bookkeeping: cancelled marks the processQueue
\* invocations that were alive when a cancelProcessing arrived.
CancelProcessing ==
    /\ isProcessing' = FALSE
    /\ runs' = [r \in RunIds |->
                  IF Live(r) THEN [runs[r] EXCEPT !.cancelled = TRUE]
                  ELSE runs[r]]
    /\ progressUpdate' = NoProgress
    /\ UNCHANGED << extractedMessages, runState, currentTabId, storage, export,
                    contentVars >>

\* case 'clearData'
ClearData ==
    /\ extractedMessages' = <<>>
    /\ runState' = EmptyRunState
    /\ storage' = NotStored
    /\ UNCHANGED << isProcessing, currentTabId, runs, export,
                    contentVars >>
    /\ progressUpdate' = NoProgress

\* case 'getState': the state is returned and left alone
GetState ==
    /\ progressUpdate' = NoProgress
    /\ UNCHANGED << extractedMessages, runState, isProcessing, currentTabId,
                    storage, runs, export,
                    contentVars >>

\* case 'scanInbox': forwardToContentScript('scanInbox'); the conversation
\* list goes to the side panel and leaves the orchestrator's state alone
ScanInbox ==
    \E found \in BOOLEAN :
        /\ currentTabId' = IF found THEN 1 ELSE currentTabId
        /\ progressUpdate' = NoProgress
        /\ UNCHANGED << extractedMessages, runState, isProcessing, storage,
                        runs, export,
                    contentVars >>

(***************************************************************************)
(* forwardToContentScript('extractChat', ...) of run r, one await at a     *)
(* time.                                                                   *)
(***************************************************************************)
CurrentChatKey(r) == runs[r].queue[runs[r].i]

\* getActiveTab() found no tab: the error result comes back without a send
NoActiveTab(r) ==
    /\ runs[r].pc = "getActiveTab"
    /\ Becomes(HandleResult(Cur, r, ErrorResult(CurrentChatKey(r), ErrNoTab)))
    /\ UNCHANGED << currentTabId, export,
                    contentVars >>

\* getActiveTab() found the tab: chrome.tabs.sendMessage is called
SendExtractChat(r) ==
    /\ runs[r].pc = "getActiveTab"
    /\ currentTabId' = 1
    /\ runs' = [runs EXCEPT ![r].pc = "sendMessage"]
    /\ UNCHANGED << extractedMessages, runState, isProcessing, storage, export,
                    contentVars >>
    /\ progressUpdate' = NoProgress

\* chrome.tabs.sendMessage resolves, the first or the second time
ExtractChatResponse(r) ==
    /\ runs[r].pc \in {"sendMessage", "sendMessage2"}
    /\ \E result \in ExtractChatResults(CurrentChatKey(r)) :
          Becomes(HandleResult(Cur, r, result))
    /\ UNCHANGED << currentTabId, export,
                    contentVars >>

\* a variant in which the first rejection is already the error
SendMessageRejected_Fatal(r) ==
    /\ runs[r].pc = "sendMessage"
    /\ Becomes(HandleResult(Cur, r,
                  ErrorResult(CurrentChatKey(r), ErrNotResponding)))
    /\ UNCHANGED << currentTabId, export,
                    contentVars >>

\* the first chrome.tabs.sendMessage rejects: chrome.scripting.executeScript
SendMessageRejected(r) ==
    /\ runs[r].pc = "sendMessage"
    /\ runs' = [runs EXCEPT ![r].pc = "executeScript"]
    /\ UNCHANGED << extractedMessages, runState, isProcessing, currentTabId,
                    storage, export,
                    contentVars >>
    /\ progressUpdate' = NoProgress

\* the injection succeeded: sleep(500)
ScriptInjected(r) ==
    /\ runs[r].pc = "executeScript"
    /\ runs' = [runs EXCEPT ![r].pc = "sleep500"]
    /\ UNCHANGED << extractedMessages, runState, isProcessing, currentTabId,
                    storage, export,
                    contentVars >>
    /\ progressUpdate' = NoProgress

\* sleep(500) is over: the request is sent a second time
ResendExtractChat(r) ==
    /\ runs[r].pc = "sleep500"
    /\ runs' = [runs EXCEPT ![r].pc = "sendMessage2"]
    /\ UNCHANGED << extractedMessages, runState, isProcessing, currentTabId,
                    storage, export,
                    contentVars >>
    /\ progressUpdate' = NoProgress

\* the injection or the second chrome.tabs.sendMessage rejects
InjectFailed(r) ==
    /\ runs[r].pc \in {"executeScript", "sendMessage2"}
    /\ Becomes(HandleResult(Cur, r,
                  ErrorResult(CurrentChatKey(r), ErrNotResponding)))
    /\ UNCHANGED << currentTabId, export,
                    contentVars >>

\* the pacing delay is over
SleepDone(r) ==
    /\ runs[r].pc = "sleep"
    /\ Becomes(LoopHead(Cur, r))
    /\ UNCHANGED << currentTabId, export,
                    contentVars >>

\* chrome.storage.local.set has resolved: the 'done' snapshot
StorageSetDone(r) ==
    /\ runs[r].pc = "storageSet"
    /\ Becomes([broadcastProgress(Cur, r, DoneSnapshot(Cur, r))
                   EXCEPT !.runs[r].pc = "returned"])
    /\ UNCHANGED << currentTabId, export,
                    contentVars >>

(***************************************************************************)
(* exportToFile, as far as it touches the orchestrator's state: the        *)
(* restore of the accumulated list from storage and the empty check.  What *)
(* follows them (settings, anonymization, encoding, download) reads the    *)
(* list and writes nothing here.  The side panel disables its download     *)
(* button until the response arrives, so one export is in progress at a    *)
(* time.                                                                   *)
(***************************************************************************)
\* case 'exportCSV' / 'exportAnonCSV' with accumulated messages in memory
ExportToFile ==
    /\ export.pc = "idle"
    /\ Len(extractedMessages) > 0
    /\ progressUpdate' = NoProgress
    /\ UNCHANGED << extractedMessages, runState, isProcessing, currentTabId,
                    storage, runs, export,
                    contentVars >>

\* the same with none in memory: chrome.storage.local.get is called
ExportFromStorage ==
    /\ export.pc = "idle"
    /\ Len(extractedMessages) = 0
    /\ Len(storage.extractedMessages) <= MaxRestored
    /\ export' = [pc |-> "storageGet", stored |-> storage]
    /\ UNCHANGED << extractedMessages, runState, isProcessing,
                    currentTabId, storage, runs,
                    contentVars >>
    /\ progressUpdate' = NoProgress

\* chrome.storage.local.get has resolved: restore, then the empty check,
\* which returns {error: 'No messages to export...'} or lets the export go on
ExportRestore ==
    /\ export.pc = "storageGet"
    /\ extractedMessages' =
           IF export.stored.present
              /\ Len(export.stored.extractedMessages) > 0
           THEN export.stored.extractedMessages
           ELSE extractedMessages
    /\ export' = ExportIdle
    /\ UNCHANGED << runState, isProcessing, currentTabId, storage, runs,
                    contentVars >>
    /\ progressUpdate' = NoProgress

(***************************************************************************)
(* The specification.                                                      *)
(***************************************************************************)
Next ==
    \/ StartAccepted
    \/ StartRejected
    \/ CancelProcessing
    \/ ClearData
    \/ GetState
    \/ ScanInbox
    \/ ExportToFile
    \/ ExportFromStorage
    \/ ExportRestore
    \/ \E r \in RunIds : NoActiveTab(r)
    \/ \E r \in RunIds : SendExtractChat(r)
    \/ \E r \in RunIds : ExtractChatResponse(r)
    \/ \E r \in RunIds : SendMessageRejected(r)
    \/ \E r \in RunIds : ScriptInjected(r)
    \/ \E r \in RunIds : ResendExtractChat(r)
    \/ \E r \in RunIds : InjectFailed(r)
    \/ \E r \in RunIds : SleepDone(r)
    \/ \E r \in RunIds : StorageSetDone(r)

Spec == Init /\ [][Next]_vars

(***************************************************************************)
(* The same program under the scheduling the platform guarantees: every    *)
(* await of a processQueue invocation settles (a promise of the browser    *)
(* resolves or rejects, a timer fires).  Nothing is assumed of the side    *)
(* panel's requests.                                                       *)
(***************************************************************************)
RunStep(r) ==
    \/ NoActiveTab(r)
    \/ SendExtractChat(r)
    \/ ExtractChatResponse(r)
    \/ SendMessageRejected(r)
    \/ ScriptInjected(r)
    \/ ResendExtractChat(r)
    \/ InjectFailed(r)
    \/ SleepDone(r)
    \/ StorageSetDone(r)

\* the requests that decide whether and how a run ends; the others neither
\* read nor write the processing flag or a processQueue invocation
FairNext ==
    \/ StartAccepted
    \/ CancelProcessing
    \/ ClearData
    \/ ScanInbox
    \/ \E r \in RunIds : RunStep(r)

FairSpec ==
    Init /\ [][FairNext]_vars /\ \A r \in RunIds : WF_vars(RunStep(r))

(***************************************************************************)
(* The runs of the mode 'exclude'.  There the side panel sends as the      *)
(* queue the scanned list without the excluded chats                       *)
(* (sidepanel.js:271-274), and the scanned list can hold one chatKey       *)
(* twice: two conversations of one name whose items have no link get the   *)
(* same key.  This specification starts runs on such lists, next to lists  *)
(* without duplicates, and follows them with cancellations in between.     *)
(***************************************************************************)
ScannedQueues ==
    {SubSeq(ScannedKeys, 1, MaxQueueLen)}
    \cup {[j \in 1..n |-> ScannedKeys[1]] : n \in 2..MaxQueueLen}

StartFromScan ==
    \E selectedChatKeys \in ScannedQueues, settings \in SettingsInputs :
        startProcessing(selectedChatKeys, settings)

PacingNext ==
    \/ StartFromScan
    \/ CancelProcessing
    \/ \E r \in RunIds : RunStep(r)

PacingSpec == Init /\ [][PacingNext]_vars

(***************************************************************************)
(* Vocabulary of the properties.                                           *)
(***************************************************************************)
\* run r has an extractChat request outstanding: sent and not yet answered
Outstanding(r) == runs[r].pc \in {"sendMessage", "sendMessage2"}

\* this step is a step of run r: it resumes the invocation at its await
Stepped(r) ==
    /\ Live(r)
    /\ \/ runs'[r].pc = "none"
       \/ runs'[r].pc # runs[r].pc
       \/ runs'[r].i # runs[r].i

\* this step is the one in which run r returns
Returns(r) == Live(r) /\ runs'[r].pc = "none"

\* this step is the one in which a processQueue request is accepted
Accepted == \E r \in RunIds : ~Live(r) /\ runs'[r].pc # "none"

\* the notification sent by this step is a terminal snapshot of run r
TerminalSent(r) ==
    /\ progressUpdate'.run = r
    /\ progressUpdate'.payload.status \in {"done", "cancelled"}

HasCounts(payload) ==
    {"processed", "total", "failures", "messageCount"} \subseteq DOMAIN payload

\* this step records a conversation-scoped error for the current item of r
ConversationErrorStep(r) ==
    /\ Outstanding(r)
    /\ Stepped(r)
    /\ runState'.failures # runState.failures
    /\ Len(runState'.failures) > 0
    /\ Last(runState'.failures).reason \in ConversationErrors

\* this step is the one in which run r finds the content script unreachable
\* for good: the injection fails, or the request sent again is rejected
ChannelLostStep(r) ==
    /\ runs[r].pc \in {"executeScript", "sendMessage2"}
    /\ Stepped(r)
    /\ runs'[r].pc # "sleep500"
    /\ runState'.failures # runState.failures
    /\ Len(runState'.failures) > 0
    /\ Last(runState'.failures).reason = ErrNotResponding

(***************************************************************************)
(* C1.  In every interleaving of processQueue, cancelProcessing and        *)
(* clearData requests with extraction responses, at most one extractChat   *)
(* request is outstanding at any time.                                     *)
(***************************************************************************)
C1_OneRequestOutstanding ==
    Cardinality({r \in RunIds : Outstanding(r)}) <= 1

(***************************************************************************)
(* C2.  A processQueue request that arrives while a run is active, that    *)
(* is, started and not yet ended with its done or cancelled snapshot, is   *)
(* rejected and changes neither runState nor the accumulated messages:     *)
(* no step accepts a request while a processQueue invocation is alive.     *)
(***************************************************************************)
C2_StartRejectedWhileActive ==
    [][(\E r \in RunIds : Live(r)) => ~Accepted]_vars

(***************************************************************************)
(* C3.  When an extractChat attempt fails because the content script is    *)
(* unreachable, the run records exactly one failure for that chatKey,      *)
(* sends no request for any remaining item (it returns), and its final     *)
(* done snapshot reports as processed the number of successes of the run   *)
(* so far and counts that failure.                                         *)
(***************************************************************************)
C3_ChannelLostStopsRun ==
    [][\A r \in RunIds : ChannelLostStep(r) =>
          /\ runState'.failures =
                 Append(runState.failures,
                        [chatKey |-> CurrentChatKey(r),
                         reason |-> ErrNotResponding])
          /\ Returns(r)
          /\ progressUpdate'.run = r
          /\ progressUpdate'.payload.status = "done"
          /\ progressUpdate'.payload.processed = runs[r].succeeded
          /\ progressUpdate'.payload.failures = Len(runState'.failures)]_vars

(***************************************************************************)
(* C4, as claimed.  When extractChat returns a conversation-scoped error   *)
(* for an item that is not the last one, the run goes on to attempt the    *)
(* next queue item: it does not return, and is waiting out the pacing      *)
(* delay or already attempting the next item.                              *)
(***************************************************************************)
C4_ErrorGoesOnToNextItem ==
    [][\A r \in RunIds :
          ConversationErrorStep(r) /\ runs[r].i < Len(runs[r].queue) =>
              runs'[r].pc \in {"sleep", "getActiveTab"}]_vars

(***************************************************************************)
(* C4, amended.  When extractChat returns a conversation-scoped error,     *)
(* the orchestrator appends {chatKey, reason} to failures, does not add    *)
(* the key to processedChatKeys, adds no messages and leaves the           *)
(* processing flag as it is; the error does not end the run.  If the flag  *)
(* is set and the item is not the last, the run waits the pacing delay     *)
(* and then, if the flag is still set, attempts the next item.  If the     *)
(* flag was cleared, the run ends with the cancelled snapshot instead of   *)
(* attempting the next item.  After the last item the run goes on to its   *)
(* normal end.                                                             *)
(***************************************************************************)
C4_ErrorRecordedRunContinues ==
    [][\A r \in RunIds :
          /\ ConversationErrorStep(r) =>
                /\ \E reason \in ConversationErrors :
                      runState'.failures =
                          Append(runState.failures,
                                 [chatKey |-> CurrentChatKey(r),
                                  reason |-> reason])
                /\ runState'.processedChatKeys = runState.processedChatKeys
                /\ extractedMessages' = extractedMessages
                /\ IF runs[r].i = Len(runs[r].queue)
                   THEN /\ runs'[r].pc = "storageSet"
                        /\ ~isProcessing'
                   ELSE /\ isProcessing' = isProcessing
                        /\ IF isProcessing
                           THEN /\ runs'[r].pc = "sleep"
                                /\ runs'[r].i = runs[r].i + 1
                           ELSE /\ Returns(r)
                                /\ progressUpdate'.run = r
                                /\ progressUpdate'.payload.status = "cancelled"
          /\ runs[r].pc = "sleep" /\ Stepped(r) /\ isProcessing =>
                /\ runs'[r].pc = "getActiveTab"
                /\ runs'[r].i = runs[r].i
                /\ progressUpdate'.run = r
                /\ progressUpdate'.payload.status = "processing"
                /\ progressUpdate'.payload.current = CurrentChatKey(r)]_vars

\* a run that has recorded a conversation-scoped error for its first item
\* and waits the pacing delay before the second
C4_Witness ==
    \E r \in RunIds :
        /\ runs[r].pc = "sleep"
        /\ runs[r].i = 2
        /\ Len(runState.failures) > 0
        /\ Last(runState.failures).reason \in ConversationErrors
        /\ Last(runState.failures).chatKey = runs[r].queue[1]
        /\ runState.processedChatKeys = <<>>

(***************************************************************************)
(* C5.  After cancelProcessing is received during a run, the extraction    *)
(* in flight runs to completion and no extractChat request for a later     *)
(* queue item is sent by that run: a run that was alive when a             *)
(* cancelProcessing arrived never starts on another item.                  *)
(***************************************************************************)
C5_NoLaterItemAfterCancel ==
    [][\A r \in RunIds :
          Live(r) /\ runs[r].cancelled /\ runs[r].pc # "getActiveTab" =>
              runs'[r].pc # "getActiveTab"]_vars

(***************************************************************************)
(* C6.  Every accepted start is eventually followed by exactly one         *)
(* terminal snapshot (done or cancelled) and by the release of the         *)
(* processing flag, so that a later start is accepted: a run sends a       *)
(* terminal snapshot in the step in which it returns and in no other,      *)
(* every run returns, and the flag never stays set for ever.  When the     *)
(* content script cannot be reached (the injection fails) the run ends     *)
(* in that very step with a 'not responding' failure and a done snapshot.  *)
(***************************************************************************)
C6_RunEndsWithOneTerminalSnapshot ==
    /\ [][\A r \in RunIds :
             /\ Live(r) => (Returns(r) <=> TerminalSent(r))
             /\ ~Live(r) => ~TerminalSent(r) \/ Accepted
             /\ runs[r].pc = "executeScript" /\ Stepped(r)
                    /\ runs'[r].pc # "sleep500" =>
                   /\ Returns(r)
                   /\ ~isProcessing'
                   /\ progressUpdate'.payload.status = "done"
                   /\ Last(runState'.failures) =
                          [chatKey |-> CurrentChatKey(r),
                           reason |-> ErrNotResponding]]_vars
    /\ \A r \in RunIds : []<>(~Live(r))
    /\ []<>(~isProcessing)

\* a run has just ended because the content script could not be reached:
\* its done snapshot is out, it has returned and the flag is released
C6_Witness ==
    /\ progressUpdate.run \in RunIds
    /\ progressUpdate.payload.status = "done"
    /\ ~Live(progressUpdate.run)
    /\ ~isProcessing
    /\ Len(runState.failures) > 0
    /\ Last(runState.failures).reason = ErrNotResponding
    /\ progressUpdate.payload.failures = Len(runState.failures)

(***************************************************************************)
(* C7.  processedChatKeys and failures are empty immediately after an      *)
(* accepted start, and from then until the run's terminal snapshot they    *)
(* only grow: while a run is alive every step leaves the old lists as      *)
(* prefixes of the new ones, whatever request is handled.                  *)
(***************************************************************************)
C7_RunStateOnlyGrows ==
    [][/\ Accepted => /\ runState'.processedChatKeys = <<>>
                      /\ runState'.failures = <<>>
       /\ (\E r \in RunIds : Live(r)) =>
              /\ IsPrefix(runState.processedChatKeys,
                          runState'.processedChatKeys)
              /\ IsPrefix(runState.failures, runState'.failures)]_vars

(***************************************************************************)
(* C8.  Nothing fails silently: a run that ends with done without a fatal  *)
(* abort (it returns after its storage write) has                          *)
(* |processedChatKeys| + |failures| equal to the length of its queue.      *)
(***************************************************************************)
C8_EveryItemCounted ==
    [][\A r \in RunIds :
          runs[r].pc = "storageSet" /\ Returns(r) =>
              Len(runState'.processedChatKeys) + Len(runState'.failures)
                  = Len(runs[r].queue)]_vars

(***************************************************************************)
(* C9.  The terminal snapshot of every run, done or cancelled, reports     *)
(* processed, total and failures equal to the sizes of processedChatKeys,  *)
(* the queue and failures at that moment.                                  *)
(***************************************************************************)
C9_TerminalSnapshotCounts ==
    [][\A r \in RunIds :
          Returns(r) =>
              LET payload == progressUpdate'.payload IN
              /\ payload.status \in {"done", "cancelled"}
              /\ HasCounts(payload)
              /\ payload.processed = Len(runState'.processedChatKeys)
              /\ payload.total = Len(runs[r].queue)
              /\ payload.failures = Len(runState'.failures)]_vars

(***************************************************************************)
(* C10.  After every queue item's extraction completes, a snapshot whose   *)
(* processed, failures and messageCount include that item's outcome is     *)
(* emitted before any further extractChat request, and one more at the     *)
(* end of the run: whenever a run that has finished an item passes on to   *)
(* the next item or returns, that step emits a snapshot of the run that    *)
(* carries the three counts, equal to the sizes of the lists, with the     *)
(* run's own successes among the processed.                                *)
(***************************************************************************)
C10_SnapshotAfterEveryItem ==
    [][\A r \in RunIds :
          /\ Stepped(r)
          /\ runs[r].pc # "getActiveTab"
          /\ runs'[r].pc \in {"getActiveTab", "none"}
          =>
          LET payload == progressUpdate'.payload IN
          /\ progressUpdate'.run = r
          /\ HasCounts(payload)
          /\ payload.processed = Len(runState'.processedChatKeys)
          /\ payload.processed >= runs[r].succeeded
          /\ payload.failures = Len(runState'.failures)
          /\ payload.messageCount = Len(extractedMessages')]_vars

\* this step is the one in which run r records a failure with the reason
FailureStep(r, reason) ==
    /\ Stepped(r)
    /\ runState'.failures # runState.failures
    /\ Len(runState'.failures) > 0
    /\ Last(runState'.failures).reason = reason

(***************************************************************************)
(* C36.  A first rejection of chrome.tabs.sendMessage is tolerated: it     *)
(* records nothing and is followed by the injection and, for the same      *)
(* queue item, by one second send.  The 'not responding' error is          *)
(* recorded only when the injection or that second send has failed, never  *)
(* after the first rejection alone, and it ends the run; a second send is  *)
(* followed by no third.  The 'no tab' error is recorded only from the     *)
(* point where getActiveTab has answered and nothing has been sent.        *)
(***************************************************************************)
C36_OneRetryThenFatal ==
    [][\A r \in RunIds :
          /\ FailureStep(r, ErrNotResponding) =>
                 runs[r].pc \in {"executeScript", "sendMessage2"} /\ Returns(r)
          /\ runs[r].pc = "sendMessage" /\ Stepped(r) /\ runs'[r].pc = "executeScript"
                 => /\ runState' = runState
                    /\ extractedMessages' = extractedMessages
                    /\ runs'[r].i = runs[r].i
          /\ runs[r].pc \in {"executeScript", "sleep500"} /\ Stepped(r)
             /\ ~FailureStep(r, ErrNotResponding)
                 => /\ runs'[r].pc = IF runs[r].pc = "executeScript"
                                     THEN "sleep500" ELSE "sendMessage2"
                    /\ runs'[r].i = runs[r].i
                    /\ runState' = runState
          /\ runs[r].pc = "sendMessage2" /\ Stepped(r) =>
                 runs'[r].pc \notin {"executeScript", "sleep500", "sendMessage2"}
          /\ FailureStep(r, ErrNoTab) => runs[r].pc = "getActiveTab"]_vars

\* the request for the second item of a run is being sent a second time,
\* after a first item that succeeded, and nothing has been recorded for it
C36_Witness ==
    \E r \in RunIds :
        /\ runs[r].pc = "sendMessage2"
        /\ runs[r].i = 2
        /\ runState.processedChatKeys = <<runs[r].queue[1]>>
        /\ runState.failures = <<>>

(***************************************************************************)
(* C37.  The pacing delay is waited between every two consecutive          *)
(* extractChat requests of a run and nowhere else: a run starts to wait    *)
(* only when it has finished an item that is not the last of its queue     *)
(* and no cancellation has been requested since it started, whether or     *)
(* not a chatKey occurs twice in the queue; and the request for every      *)
(* item but the first follows a wait.                                      *)
(***************************************************************************)
C37_DelayOnlyBetweenItems ==
    [][\A r \in RunIds : Stepped(r) =>
          /\ runs'[r].pc = "sleep" =>
                 /\ runs'[r].i = runs[r].i + 1
                 /\ runs[r].i < Len(runs[r].queue)
                 /\ ~runs[r].cancelled
          /\ runs'[r].pc = "getActiveTab" /\ runs'[r].i > 1 =>
                 runs[r].pc = "sleep"]_vars

\* the same for the runs that no cancellation has met and whose queue has
\* no chatKey twice
DelayWithoutDuplicates ==
    [][\A r \in RunIds :
          /\ Stepped(r)
          /\ ~runs[r].cancelled
          /\ \A j, k \in 1..Len(runs[r].queue) :
                 runs[r].queue[j] = runs[r].queue[k] => j = k
          =>
          /\ runs'[r].pc = "sleep" =>
                 /\ runs'[r].i = runs[r].i + 1
                 /\ runs[r].i < Len(runs[r].queue)
          /\ runs'[r].pc = "getActiveTab" /\ runs'[r].i > 1 =>
                 runs[r].pc = "sleep"]_vars

(***************************************************************************)
(* C38.  Whenever a run has ended, normally, by the fatal abort or by      *)
(* cancellation, the list in local storage is the list the run has         *)
(* accumulated: in the step in which a run returns while no other run is   *)
(* under way, storage holds the list that memory holds.                    *)
(***************************************************************************)
Alone(r) == \A o \in RunIds \ {r} : ~Live(o) /\ runs'[o].pc = "none"

C38_StoredWhenRunEnds ==
    [][\A r \in RunIds :
          Returns(r) /\ Alone(r)
          => storage'.extractedMessages = extractedMessages']_vars

\* a run that has passed its last item writes the list that memory holds
StoredAtNormalEnd ==
    [][\A r \in RunIds :
          Live(r) /\ runs[r].pc # "storageSet" /\ runs'[r].pc = "storageSet"
          => storage'.extractedMessages = extractedMessages']_vars

(***************************************************************************)
(* C39.  At every moment every message of the accumulated list carries a   *)
(* chatKey that is in processedChatKeys of the RunState: no message of an  *)
(* earlier run, of a cancelled run's extraction still in flight, or        *)
(* restored from storage stands beside the RunState of the current run.    *)
(***************************************************************************)
Processed(chatKey) ==
    \E k \in 1..Len(runState.processedChatKeys) :
        runState.processedChatKeys[k] = chatKey

C39_MessagesOfProcessedChats ==
    \A j \in 1..Len(extractedMessages) : Processed(extractedMessages[j].chatKey)

\* the messages a run appends come with their chatKey: the step that
\* appends them appends the chatKey to processedChatKeys
AppendedWithKey ==
    [][\A r \in RunIds :
          Stepped(r) /\ Len(extractedMessages') > Len(extractedMessages)
          => \A j \in (Len(extractedMessages) + 1)..Len(extractedMessages') :
                 \E k \in 1..Len(runState'.processedChatKeys) :
                     runState'.processedChatKeys[k] = extractedMessages'[j].chatKey]_vars

(***************************************************************************)
(*                          THE CONTENT SCRIPT                             *)
(*                                                                         *)
(* Strings of the page are sequences of characters, so that the string     *)
(* operations of the code are computed and not assumed.                    *)
(***************************************************************************)
toLowerCase(s) == [j \in 1..Len(s) |-> IF s[j] = "K" THEN "k" ELSE s[j]]

\* String.prototype.trim
trim(s) ==
    LET solid == {j \in 1..Len(s) : s[j] # " "} IN
    IF solid = {} THEN <<>>
    ELSE SubSeq(s, CHOOSE j \in solid : \A h \in solid : j <= h,
                   CHOOSE j \in solid : \A h \in solid : j >= h)

\* str.replace(/\s+/g, ' '): every run of blanks becomes one blank
CollapseBlanks(s) ==
    SelectSeq([j \in 1..Len(s) |->
                  IF s[j] = " " /\ j > 1 /\ s[j - 1] = " " THEN "" ELSE s[j]],
              LAMBDA c : c # "")

\* cleanText; the textContent of an element that is missing is the empty string
cleanText(str) == IF str = <<>> THEN <<>> ELSE trim(CollapseBlanks(str))

startsWith(s, prefix) ==
    /\ Len(prefix) <= Len(s)
    /\ SubSeq(s, 1, Len(prefix)) = prefix

\* String.prototype.includes
includes(s, part) ==
    \E j \in 0..(Len(s) - Len(part)) : SubSeq(s, j + 1, j + Len(part)) = part

\* s.split(' ')[0]
FirstWord(s) ==
    LET blanks == {j \in 1..Len(s) : s[j] = " "} IN
    IF blanks = {} THEN s
    ELSE SubSeq(s, 1, (CHOOSE j \in blanks : \A h \in blanks : j <= h) - 1)

isSenderMatch(extracted, senderName) ==
    IF extracted = <<>> \/ senderName = <<>> THEN FALSE
    ELSE LET a == trim(toLowerCase(extracted))
             b == trim(toLowerCase(senderName))
         IN  \/ a = b
             \/ startsWith(a, toLowerCase(FirstWord(b)))
             \/ includes(b, a)

(***************************************************************************)
(* collectMessages.  The message pane of the document, as the selectors    *)
(* see it, is a record of three lists of elements:                         *)
(*   groups  what SEL.messageGroup finds: [sender, time, bodies]           *)
(*   items   what SEL.messageItem finds:  [sender, time, text]             *)
(*   dataX   what '[data-x-message-content]' finds: [sender, time, text]   *)
(* sender, time and text are the textContent of the name, time and body    *)
(* elements, empty where the element is missing.                           *)
(***************************************************************************)
\* PLATFORMS[platformId].csvPlatformName
csvPlatformName(platformId) ==
    CASE platformId = "linkedin_sales" -> "Linkedin Sales Navigator"
      [] platformId = "linkedin"       -> "Linkedin"
      [] platformId = "instagram"      -> "Instagram"
      [] platformId = "whatsapp"       -> "Whatsapp"
      [] platformId = "telegram"       -> "Telegram"

\* the keys of PLATFORMS: what detectPlatform returns on a supported page
PlatformIds == {"linkedin_sales", "linkedin", "instagram", "whatsapp",
                "telegram"}

\* messages.push({...}) for one candidate
PushedMessage(platformId, isMine, sender, timestamp, text, senderName, contactName, chatKey) ==
    [platform |-> csvPlatformName(platformId),
     messageDateRaw |-> timestamp,
     sender |-> IF isMine THEN senderName
                ELSE IF sender # <<>> THEN sender ELSE contactName,
     receiver |-> IF isMine THEN contactName ELSE senderName,
     text |-> text,
     chatKey |-> chatKey]

\* the loops over flat elements (message items, data-x elements)
FlatMessages(platformId, elements, senderName, contactName, chatKey) ==
    LET kept == SelectSeq(elements, LAMBDA el : cleanText(el.text) # <<>>) IN
    [j \in 1..Len(kept) |->
        LET sender == cleanText(kept[j].sender)
            isMine == sender = <<>> \/ isSenderMatch(sender, senderName)
        IN  PushedMessage(platformId, isMine, sender, kept[j].time,
                          cleanText(kept[j].text), senderName, contactName,
                          chatKey)]

RECURSIVE GroupedMessages(_, _, _, _, _)
\* Strategy 1: every body of a group gets the group's sender and time
GroupedMessages(platformId, groups, senderName, contactName, chatKey) ==
    IF groups = <<>> THEN <<>>
    ELSE LET group == Head(groups)
             sender == cleanText(group.sender)
             bodies == SelectSeq(group.bodies,
                                 LAMBDA body : cleanText(body) # <<>>)
             isMine == isSenderMatch(sender, senderName)
         IN  [j \in 1..Len(bodies) |->
                 PushedMessage(platformId, isMine, sender, group.time,
                               cleanText(bodies[j]), senderName, contactName,
                               chatKey)]
             \o GroupedMessages(platformId, Tail(groups), senderName,
                                contactName, chatKey)

collectMessages(platformId, dom, senderName, contactName, chatKey) ==
    IF platformId = "sales_navigator"
    THEN LET direct == FlatMessages(platformId, dom.dataX, senderName,
                                    contactName, chatKey)
         IN  IF Len(direct) = 0
             THEN FlatMessages(platformId, dom.items, senderName,
                               contactName, chatKey)
             ELSE direct
    ELSE LET grouped == GroupedMessages(platformId, dom.groups, senderName,
                                        contactName, chatKey)
         IN  IF Len(grouped) = 0
             THEN FlatMessages(platformId, dom.items, senderName,
                               contactName, chatKey)
             ELSE grouped

(***************************************************************************)
(* The sender attribution on its own: collectMessages applied to a pane    *)
(* that holds one message, whose sender element reads `extracted`, found   *)
(* either by the group selector or by the item selector.                   *)
(***************************************************************************)
MaxNameLen == 3     \* length of the text of a sender element

Chars == {"K", "k", "a", "b", " "}

\* texts as cleanText leaves them
CleanTexts(n) ==
    {str \in UNION {[1..m -> Chars] : m \in 0..n} : cleanText(str) = str}

\* settings.senderName as the side panel sends it: trimmed and not empty
SenderNames == { <<"K", "a", " ", "b">>, <<"k", "a">> }

ContactName == <<"b", "b">>

EmptyPane == [groups |-> <<>>, items |-> <<>>, dataX |-> <<>>]

OneMessagePane(shape, extracted) ==
    IF shape = "grouped"
    THEN [EmptyPane EXCEPT !.groups =
             << [sender |-> extracted, time |-> "t1", bodies |-> << <<"a">> >>] >>]
    ELSE [EmptyPane EXCEPT !.items =
             << [sender |-> extracted, time |-> "t1", text |-> <<"a">>] >>]

MatchInputs ==
    [pc : {"input"}, platformId : {"linkedin", "linkedin_sales"},
     shape : {"grouped", "flat"}, extracted : CleanTexts(MaxNameLen),
     senderName : SenderNames, messages : {<<>>}]

AttribInit ==
    /\ OrchestratorInit
    /\ page = NoPage
    /\ ex = NoExtraction
    /\ scan = NoScan
    /\ match \in MatchInputs

Attribute ==
    /\ match.pc = "input"
    /\ match' = [match EXCEPT
           !.pc = "done",
           !.messages = collectMessages(match.platformId,
                            OneMessagePane(match.shape, match.extracted),
                            match.senderName, ContactName, "k1")]
    /\ UNCHANGED << orchestratorVars, page, ex, scan >>

AttribNext == Attribute

AttribSpec == AttribInit /\ [][AttribNext]_vars

\* the message of the pane was attributed to the user
AttributedToUser ==
    /\ Len(match.messages) = 1
    /\ match.messages[1].sender = match.senderName
    /\ match.messages[1].receiver = ContactName

(***************************************************************************)
(* C19.  A candidate message whose extracted sender is empty is always     *)
(* attributed to the user (sender = the configured sender name, receiver   *)
(* = the conversation's other party), whichever strategy produced it.      *)
(***************************************************************************)
C19_EmptySenderIsUser ==
    match.pc = "done" /\ match.extracted = <<>> => AttributedToUser

(***************************************************************************)
(* C20.  For a non-empty extracted sender the message is attributed to     *)
(* the user if and only if, case-insensitively, the extracted value        *)
(* equals the configured sender name, or is a prefix of the configured     *)
(* name's first name, or is contained in the configured name.              *)
(***************************************************************************)
C20_FuzzyMatchRule ==
    match.pc = "done" /\ match.extracted # <<>> =>
        LET a == toLowerCase(match.extracted)
            b == toLowerCase(match.senderName)
        IN  AttributedToUser <=>
                \/ a = b
                \/ startsWith(FirstWord(b), a)
                \/ includes(b, a)

(***************************************************************************)
(* extractChat.  The page is the environment: its conversation list, its   *)
(* message pane, which the page fills some time after a conversation was   *)
(* clicked, and the clock.  Times are in milliseconds.                     *)
(***************************************************************************)
MaxLate == 2          \* timers fire on time or MaxLate * 100 ms late
MaxExtractions == 2   \* extractChat requests the content script serves

\* LIMITS, and the waits written into the code
maxScrollAttempts == 25
maxTimePerChat == 20000
scrollPause == 400
renderTimeout == 5000
OpenPause == 1500
PollPause == 300
DefaultMessagesPerChat == 8
FingerprintLen == 80

\* chatKeys: two threads of the list, one conversation that is keyed by its
\* name, one thread that is not in the list
KeyA == <<"a", "1">>
KeyB == <<"b", "2">>
KeyNamed == <<"c", "h", "a", "t", "_", "b", "_", "b">>
KeyGone == <<"z", "9">>
ChatKeyInputs == {KeyA, KeyB, KeyNamed, KeyGone}

SenderName == <<"K", "a", " ", "b">>

\* the settings of the requests: messagesPerChat and senderName
ExtractSettings == [messagesPerChat |-> 2, senderName |-> SenderName]

\* chatKeyToName
chatKeyToName(chatKey) ==
    IF startsWith(chatKey, <<"c", "h", "a", "t", "_">>)
    THEN [j \in 1..(Len(chatKey) - 5) |->
             IF chatKey[j + 5] = "_" THEN " " ELSE chatKey[j + 5]]
    ELSE chatKey

(***************************************************************************)
(* The conversation list: what SEL.conversationItem finds.  An item is     *)
(* [link, href, name, thread]: whether SEL.conversationItemLink finds a    *)
(* link in it, the link's href, the text of its name element, and the      *)
(* conversation that the page opens when the item is clicked.              *)
(***************************************************************************)
ItemA == [link |-> TRUE, href |-> <<"/", "t", "/", "a", "1">>,
          name |-> <<"A", "n", "n">>, thread |-> KeyA]
ItemB == [link |-> TRUE, href |-> <<"/", "t", "/", "b", "2">>,
          name |-> <<"B", "o", "b">>, thread |-> KeyB]
ItemNamed == [link |-> FALSE, href |-> <<>>,
              name |-> <<" ", "B", " ", " ", "b">>, thread |-> KeyNamed]
ConversationLists ==
    { <<ItemA, ItemB, ItemNamed>>, <<ItemB>>, <<>> }

(***************************************************************************)
(* The message pane of each conversation, once the page has rendered it.   *)
(***************************************************************************)
ConversationPane(thread) ==
    CASE thread = KeyA ->
           [groups |-> << [sender |-> <<"K", "a", " ", "b">>, time |-> "t1",
                           bodies |-> << <<"h", "i">>, <<" ">>, <<"y", "o">> >>],
                          [sender |-> <<"A", "n", "n">>, time |-> "t2",
                           bodies |-> << <<"o", "k">> >>],
                          [sender |-> <<"k", "a">>, time |-> "t3",
                           bodies |-> << <<"b", "y", "e">> >>] >>,
            items |-> <<>>, dataX |-> <<>>]
      [] thread = KeyB ->
           [groups |-> <<>>,
            items |-> << [sender |-> <<>>, time |-> "t4", text |-> <<"h", "e", "y">>],
                         [sender |-> <<"B", "o", "b">>, time |-> "t5",
                          text |-> <<"y", "e", "s">>] >>,
            dataX |-> << [sender |-> <<>>, time |-> "t4",
                          text |-> <<"h", "e", "y">>] >>]
      [] OTHER ->
           [groups |-> <<>>,
            items |-> << [sender |-> <<"K", "a">>, time |-> "t6",
                          text |-> <<"y", "o">>] >>,
            dataX |-> <<>>]

\* getContactNameFromHeader: the header names the conversation that is shown
HeaderName(owner) ==
    CASE owner = KeyA -> <<"A", "n", "n">>
      [] owner = KeyB -> <<"B", "o", "b">>
      [] OTHER -> <<>>

\* the pane: the conversation it shows, its elements, whether
\* SEL.messageScrollContainer finds an element in it, and whether the
\* conversation has older messages to load
NoPane == [owner |-> <<>>, dom |-> EmptyPane, container |-> FALSE,
           older |-> FALSE]
ShownPane(thread) ==
    [owner |-> thread, dom |-> ConversationPane(thread),
     container |-> thread # KeyNamed, older |-> thread = KeyA]

\* how late the timers of one invocation fire, in units of 100 ms: on a
\* busy page every timer of the invocation is late
Lateness == {0, MaxLate}

\* getMessageFingerprint: the leading text of the first data-x element
getMessageFingerprint(dom) ==
    IF Len(dom.dataX) = 0 THEN <<>>
    ELSE SubSeq(dom.dataX[1].text, 1, Min(FingerprintLen, Len(dom.dataX[1].text)))

DebugTimedOut == "waitForMessages timed out"

\* the URL the page is at, and the URL of a thread
MessagingUrl == [path |-> "/messaging/", thread |-> <<>>]

(***************************************************************************)
(* openChat up to its sleep: the item it clicks, or "notfound", and the    *)
(* location after it.                                                      *)
(***************************************************************************)
RECURSIVE FindItem(_, _, _)
FindItem(list, j, chatKey) ==
    IF j > Len(list) THEN [kind |-> "notfound", thread |-> <<>>]
    ELSE LET item == list[j]
             name == cleanText(item.name)
             expectedName == chatKeyToName(chatKey)
         IN  IF item.link /\ includes(item.href, chatKey)
             THEN [kind |-> "clicked", thread |-> item.thread]
             ELSE IF /\ name # <<>>
                     /\ expectedName # <<>>
                     /\ toLowerCase(name) = toLowerCase(expectedName)
             THEN [kind |-> "clicked", thread |-> item.thread]
             ELSE FindItem(list, j + 1, chatKey)

\* the earlier openChat: a conversation that is not in the list is opened by
\* its URL
openChat_UrlFallback(list, location, chatKey) ==
    LET found == FindItem(list, 1, chatKey) IN
    IF found.kind = "notfound" /\ ~startsWith(chatKey, <<"c", "h", "a", "t", "_">>)
    THEN [kind |-> "clicked", thread |-> chatKey,
          location |-> [path |-> "/messaging/thread/", thread |-> chatKey]]
    ELSE [kind |-> found.kind, thread |-> found.thread, location |-> location]

openChat(list, location, chatKey) ==
    LET found == FindItem(list, 1, chatKey) IN
    [kind |-> found.kind, thread |-> found.thread, location |-> location]

(***************************************************************************)
(* waitForMessages: one round of the loop, and what follows the loop.      *)
(***************************************************************************)
\* a loop that takes the pane as rendered whatever it holds
PollAccepts_Anything(platformId, dom, prevFingerprint) == TRUE

PollAccepts(platformId, dom, prevFingerprint) ==
    IF platformId = "sales_navigator"
    THEN \/ Len(dom.dataX) > 0 /\ getMessageFingerprint(dom) # prevFingerprint
         \/ prevFingerprint = <<>> /\ Len(dom.dataX) > 0
    ELSE \/ Len(dom.items) > 0
         \/ Len(dom.groups) > 0
         \/ Len(dom.dataX) > 0

\* a last resort that goes on with whatever is there
AfterDeadline_GoOn(platformId, dom) == TRUE

AfterDeadline(platformId, dom) ==
    IF platformId = "sales_navigator" THEN Len(dom.dataX) > 0 ELSE FALSE

(***************************************************************************)
(* COLLECT.  Array.prototype.slice(0, end), and the result object.         *)
(***************************************************************************)
\* slice(-end): the last elements instead of the first
Slice_FromEnd(seq, end) ==
    SubSeq(seq, Len(seq) - Min(end, Len(seq)) + 1, Len(seq))

Slice(seq, end) ==
    LET stop == IF end < 0 THEN (IF Len(seq) + end < 0 THEN 0 ELSE Len(seq) + end)
                ELSE Min(end, Len(seq))
    IN  SubSeq(seq, 1, stop)

CollectResult(platformId, pane, chatKey, n, senderName, debug) ==
    LET header == HeaderName(pane.owner)
        contactName == IF header # <<>> THEN header ELSE chatKeyToName(chatKey)
        allMessages == collectMessages(platformId, pane.dom, senderName,
                                       contactName, chatKey)
        myMessages == SelectSeq(allMessages, LAMBDA m : m.sender = senderName)
        firstN == Slice(myMessages, n)
    IN  [messages |-> firstN,
         allMessages |-> Slice(allMessages, n * 3),
         chatKey |-> chatKey,
         total |-> Len(allMessages),
         collected |-> Len(firstN),
         partial |-> Len(firstN) < n,
         debug |-> debug \o << <<"all", Len(allMessages)>>,
                               <<"mine", Len(myMessages)>> >>]

(***************************************************************************)
(* The state of the page and of the content script during extractChat.     *)
(* page: platformId (detectPlatform), location, alive (the document has    *)
(* not been replaced), list, open (the conversation last clicked), pane,   *)
(* scrollHeight and now (the height of the scroll container and            *)
(* Date.now(), both counted from their values when the request arrived:    *)
(* the code compares heights and subtracts times only), atTop (scrollTop   *)
(* was set to 0 and nothing was loaded since), and rendered (the pane      *)
(* held content at some moment since the click).                           *)
(* ex: the locals of extractChat and of its helpers, _prevMessageFinger-   *)
(* print, late (how late its timers fire), the result it returned last,    *)
(* and a record of what it did:                                            *)
(* entered (the values assigned to state), scrolls (assignments of         *)
(* scrollTop), lastPoll (when the last round of waitForMessages began),    *)
(* waitEnded (when waitForMessages returned), acceptedFingerprint and      *)
(* collectedFrom (the fingerprint and the conversation of the pane when    *)
(* the render was accepted, when the messages were collected).             *)
(***************************************************************************)
PageInputs ==
    { [platformId |-> p, location |-> MessagingUrl, alive |-> TRUE,
       list |-> l, open |-> o,
       pane |-> IF o = <<>> THEN NoPane ELSE ShownPane(o),
       scrollHeight |-> 1, atTop |-> FALSE, now |-> 0,
       rendered |-> FALSE] :
      p \in {"linkedin", "linkedin_sales"}, l \in ConversationLists,
      o \in {<<>>, KeyB} }

ExtractIdle ==
    [pc |-> "idle", state |-> "IDLE", chatKey |-> <<>>, n |-> 0,
     senderName |-> <<>>, startTime |-> 0, deadline |-> 0, wake |-> 0,
     late |-> 0,
     attempts |-> 0, lastHeight |-> 0, debug |-> <<>>,
     prevMessageFingerprint |-> <<>>, result |-> [chatKey |-> <<>>],
     served |-> 0, entered |-> <<>>, scrolls |-> 0, lastPoll |-> 0,
     waitEnded |-> 0, acceptedFingerprint |-> <<>>, collectedFrom |-> <<>>]

ExtractInit ==
    /\ OrchestratorInit
    /\ page \in PageInputs
    /\ ex = ExtractIdle
    /\ scan = NoScan
    /\ match = NoMatch

\* settings?.messagesPerChat || 8
MessagesPerChat(settings) ==
    IF settings.messagesPerChat = 0 THEN DefaultMessagesPerChat
    ELSE settings.messagesPerChat

PaneHasContent(dom) ==
    Len(dom.items) > 0 \/ Len(dom.groups) > 0 \/ Len(dom.dataX) > 0

\* state = State.X
Enter(e, state) == [e EXCEPT !.state = state, !.entered = Append(@, state)]

\* return result; the listener sends it as the response
Return(e, result) ==
    [e EXCEPT !.pc = "idle", !.result = result, !.served = @ + 1]

\* state = State.COLLECT and the COLLECT block
Collect(e, pg) ==
    LET e1 == Enter(e, "COLLECT") IN
    Return([e1 EXCEPT !.collectedFrom = pg.pane.owner],
           CollectResult(pg.platformId, pg.pane, e1.chatKey, e1.n,
                         e1.senderName, e1.debug))

\* the loop without its time budget
ScrollLoop_NoBudget(e, pg) ==
    IF e.attempts < maxScrollAttempts
    THEN [e EXCEPT !.pc = "scrollToLoadMore", !.wake = pg.now + scrollPause,
                   !.scrolls = @ + 1]
    ELSE Collect(e, pg)

\* the head of the loop of scrollToLoadMore
ScrollLoop(e, pg) ==
    IF /\ e.attempts < maxScrollAttempts
       /\ ~(pg.now - e.startTime > maxTimePerChat)
    THEN [e EXCEPT !.pc = "scrollToLoadMore", !.wake = pg.now + scrollPause,
                   !.scrolls = @ + 1]
    ELSE Collect(e, pg)

\* state = State.SCROLL_TOP and scrollToLoadMore up to its first sleep
ScrollToLoadMore(e, pg) ==
    LET e1 == Enter(e, "SCROLL_TOP") IN
    IF ~pg.pane.container THEN Collect(e1, pg)
    ELSE ScrollLoop([e1 EXCEPT !.attempts = 0,
                               !.lastHeight = pg.scrollHeight], pg)

\* one round of the loop of waitForMessages, and the code after the loop
Poll(e, pg) ==
    IF pg.now < e.deadline
    THEN IF PollAccepts(pg.platformId, pg.pane.dom, e.prevMessageFingerprint)
         THEN ScrollToLoadMore(
                  [e EXCEPT !.lastPoll = pg.now, !.waitEnded = pg.now,
                            !.acceptedFingerprint =
                                getMessageFingerprint(pg.pane.dom)], pg)
         ELSE [e EXCEPT !.pc = "waitForMessages", !.lastPoll = pg.now,
                        !.wake = pg.now + PollPause]
    ELSE IF AfterDeadline(pg.platformId, pg.pane.dom)
         THEN ScrollToLoadMore(
                  [e EXCEPT !.waitEnded = pg.now,
                            !.acceptedFingerprint =
                                getMessageFingerprint(pg.pane.dom)], pg)
         ELSE Return([e EXCEPT !.waitEnded = pg.now,
                               !.debug = Append(@, DebugTimedOut)],
                     [error |-> ErrRenderTimeout, chatKey |-> e.chatKey,
                      debug |-> Append(e.debug, DebugTimedOut)])

\* the script's effect on the page in a step: the clock it read, and
\* scrollTop = 0 when it went to sleep in the scroll loop
Scripted(pg, e) == [pg EXCEPT !.atTop = (e.pc = "scrollToLoadMore")]

(***************************************************************************)
(* extractChat(chatKey, settings) from the request to the first await      *)
(* that suspends it: OPEN_CHAT, the fingerprint, openChat up to its sleep. *)
(***************************************************************************)
ExtractChatRequest(chatKey, late) ==
    /\ ex.pc = "idle"
    /\ page.alive
    /\ ex.served < MaxExtractions
    /\ LET pg == [page EXCEPT !.now = 0, !.scrollHeight = 1]
           opened == openChat(pg.list, pg.location, chatKey)
           e0 == [Enter(ExtractIdle, "OPEN_CHAT") EXCEPT
                     !.chatKey = chatKey,
                     !.n = MessagesPerChat(ExtractSettings),
                     !.senderName = ExtractSettings.senderName,
                     !.startTime = pg.now,
                     !.late = late,
                     !.served = ex.served,
                     !.prevMessageFingerprint =
                         getMessageFingerprint(pg.pane.dom)]
       IN  /\ ex' = IF opened.kind = "notfound"
                    THEN Return(e0, [error |-> ErrCouldNotOpen,
                                     chatKey |-> chatKey])
                    ELSE [e0 EXCEPT !.pc = "openChat",
                                    !.wake = pg.now + OpenPause]
           /\ page' = [pg EXCEPT
                  !.location = opened.location,
                  !.alive = (opened.location = pg.location),
                  !.open = IF opened.kind = "clicked" THEN opened.thread ELSE @,
                  !.rendered = /\ opened.kind = "clicked"
                               /\ PaneHasContent(pg.pane.dom)]
    /\ UNCHANGED << orchestratorVars, scan, match >>

\* the sleep of openChat is over: WAIT_RENDER, waitForMessages to its sleep
OpenPauseDone ==
    /\ ex.pc = "openChat"
    /\ page.alive
    /\ LET pg == [page EXCEPT !.now = ex.wake + ex.late * 100]
           e1 == [Enter(ex, "WAIT_RENDER") EXCEPT
                     !.deadline = pg.now + renderTimeout]
       IN  /\ ex' = Poll(e1, pg)
           /\ page' = Scripted(pg, ex')
    /\ UNCHANGED << orchestratorVars, scan, match >>

\* the sleep of the loop of waitForMessages is over: the next round
PollPauseDone ==
    /\ ex.pc = "waitForMessages"
    /\ LET pg == [page EXCEPT !.now = ex.wake + ex.late * 100]
       IN  /\ ex' = Poll(ex, pg)
           /\ page' = Scripted(pg, ex')
    /\ UNCHANGED << orchestratorVars, scan, match >>

\* the sleep of the loop of scrollToLoadMore is over: the height is compared
ScrollPauseDone ==
    /\ ex.pc = "scrollToLoadMore"
    /\ LET pg == [page EXCEPT !.now = ex.wake + ex.late * 100]
           newHeight == pg.scrollHeight
       IN  /\ ex' = IF newHeight = ex.lastHeight THEN Collect(ex, pg)
                    ELSE ScrollLoop([ex EXCEPT !.lastHeight = newHeight,
                                               !.attempts = @ + 1], pg)
           /\ page' = Scripted(pg, ex')
    /\ UNCHANGED << orchestratorVars, scan, match >>

(***************************************************************************)
(* The page.  It renders the conversation that was clicked, possibly       *)
(* after emptying the pane, and loads older messages above the first one   *)
(* when the pane is scrolled to the top.                                   *)
(***************************************************************************)
PaneClear ==
    /\ page.alive
    /\ page.open # <<>>
    /\ page.pane.owner # <<>>
    /\ page.pane.owner # page.open
    /\ page' = [page EXCEPT !.pane = NoPane, !.scrollHeight = 1,
                            !.atTop = FALSE]
    /\ UNCHANGED << orchestratorVars, ex, scan, match >>

PaneRender ==
    /\ page.alive
    /\ page.open # <<>>
    /\ page.pane.owner # page.open
    /\ page' = [page EXCEPT !.pane = ShownPane(page.open),
                            !.scrollHeight = 1, !.atTop = FALSE,
                            !.rendered = TRUE]
    /\ UNCHANGED << orchestratorVars, ex, scan, match >>

PageLoadsOlder ==
    /\ page.alive
    /\ page.atTop
    /\ page.pane.older
    /\ page' = [page EXCEPT !.scrollHeight = @ + 1, !.atTop = FALSE]
    /\ UNCHANGED << orchestratorVars, ex, scan, match >>

ExtractNext ==
    \/ \E chatKey \in ChatKeyInputs, late \in Lateness :
          ExtractChatRequest(chatKey, late)
    \/ OpenPauseDone
    \/ PollPauseDone
    \/ ScrollPauseDone
    \/ PaneClear
    \/ PaneRender
    \/ PageLoadsOlder

ExtractSpec == ExtractInit /\ [][ExtractNext]_vars

\* Every timer the invocation sleeps on fires: weak fairness of the three
\* wake-ups, each written out as "infinitely often not enabled, or taken
\* infinitely often" with the action's guard for its enabledness.
ExtractFairSpec ==
    /\ ExtractInit
    /\ [][ExtractNext]_vars
    /\ []<>(~(ex.pc = "openChat" /\ page.alive)) \/ []<><<OpenPauseDone>>_vars
    /\ []<>(ex.pc # "waitForMessages") \/ []<><<PollPauseDone>>_vars
    /\ []<>(ex.pc # "scrollToLoadMore") \/ []<><<ScrollPauseDone>>_vars

(***************************************************************************)
(* Vocabulary of the claims about extractChat.                             *)
(***************************************************************************)
\* a step in which extractChat is invoked
Invoked == ex.pc = "idle" /\ ex' # ex

\* a step in which extractChat returns its result
Returned == ex'.pc = "idle" /\ ex'.served = ex.served + 1

\* no item of the list has a link whose href contains the chatKey, or a
\* name that is the chatKey's name up to case and white space
NoItemMatches(list, chatKey) ==
    \A j \in 1..Len(list) :
        /\ ~(list[j].link /\ includes(list[j].href, chatKey))
        /\ toLowerCase(cleanText(list[j].name))
               # toLowerCase(chatKeyToName(chatKey))

(***************************************************************************)
(* C11.  extractChat never changes the page's location, and the document   *)
(* the content script runs in is never replaced; when no item of the       *)
(* conversation list matches the chatKey, the invocation returns at once   *)
(* with the error 'Could not open chat' for that chatKey, having clicked   *)
(* nothing.                                                                *)
(***************************************************************************)
C11_NoNavigationNotFound ==
    [][ /\ page'.location = page.location
        /\ page'.alive
        /\ \A chatKey \in ChatKeyInputs :
              /\ Invoked
              /\ ex'.chatKey = chatKey
              /\ NoItemMatches(page.list, chatKey)
              => /\ Returned
                 /\ ex'.result.error = ErrCouldNotOpen
                 /\ ex'.result.chatKey = chatKey
                 /\ "messages" \notin DOMAIN ex'.result
                 /\ page'.open = page.open
                 /\ page'.pane = page.pane ]_vars

\* a second request is being served after one that found no item
C11_Witness ==
    /\ ex.served = 2
    /\ ex.result.chatKey = KeyGone
    /\ "error" \in DOMAIN ex.result
    /\ ex.result.error = ErrCouldNotOpen
    /\ page.alive
    /\ page.location = MessagingUrl

\* the render was accepted: the invocation went on to SCROLL_TOP
RenderAccepted == \E j \in 1..Len(ex.entered) : ex.entered[j] = "SCROLL_TOP"

\* the invocation has returned a message list
ReturnedMessages == ex.pc = "idle" /\ "messages" \in DOMAIN ex.result

(***************************************************************************)
(* C12.  A render is accepted only if the fingerprint of the pane differs  *)
(* from the one taken before the conversation was clicked, or none was     *)
(* taken; and a message list that is returned was read from the pane of    *)
(* the conversation that was opened for the chatKey, never from what the   *)
(* conversation shown before had left in the pane.                         *)
(***************************************************************************)
C12_NoStaleRender ==
    /\ RenderAccepted =>
          \/ ex.acceptedFingerprint # ex.prevMessageFingerprint
          \/ ex.prevMessageFingerprint = <<>>
    /\ ReturnedMessages => ex.collectedFrom = page.open

StateOrder == << "OPEN_CHAT", "WAIT_RENDER", "SCROLL_TOP", "COLLECT" >>

\* the invocation has returned an error
ReturnedError == ex.pc = "idle" /\ "error" \in DOMAIN ex.result

(***************************************************************************)
(* C13.  The states an invocation has entered are a prefix of OPEN_CHAT,   *)
(* WAIT_RENDER, SCROLL_TOP, COLLECT (so in that order, none twice, and     *)
(* COLLECT only after WAIT_RENDER); an invocation that returns an error    *)
(* does so out of OPEN_CHAT or WAIT_RENDER, one that returns messages      *)
(* went through all four; and COLLECT is reached only if the pane held     *)
(* content while the invocation waited for the render.                     *)
(***************************************************************************)
C13_StatesInOrder ==
    /\ IsPrefix(ex.entered, StateOrder)
    /\ ex.entered # <<>> => ex.state = Last(ex.entered)
    /\ ReturnedError => ex.state \in {"OPEN_CHAT", "WAIT_RENDER"}
    /\ ReturnedMessages => ex.entered = StateOrder
    /\ ex.state = "COLLECT" => page.rendered

\* an invocation that scrolled has returned messages
C13_Witness ==
    /\ ReturnedMessages
    /\ ex.entered = StateOrder
    /\ ex.scrolls > 1

\* the invocation waited for the render and the pane held no content
\* at any moment since the click
NothingRendered ==
    /\ ex.pc = "idle"
    /\ ex.state # "OPEN_CHAT"
    /\ ex.served > 0
    /\ ~page.rendered

TimedOut == ReturnedError /\ ex.result.error = ErrRenderTimeout

(***************************************************************************)
(* C14 as stated.  When no message content was present in the pane within  *)
(* the render deadline, the invocation returns the error 'Messages did     *)
(* not render in time' for the chatKey and no message list; and the poll   *)
(* loop has ended no later than the deadline.                              *)
(***************************************************************************)
C14_TimeoutByDeadline ==
    /\ NothingRendered =>
          /\ TimedOut
          /\ ex.result.chatKey = ex.chatKey
          /\ "messages" \notin DOMAIN ex.result
    /\ TimedOut => ex.waitEnded <= ex.deadline

(***************************************************************************)
(* C14 amended.  The same result; every round of the poll loop begins      *)
(* before the deadline, and the loop ends at the first wake-up at or after *)
(* the deadline: no more than one poll pause and the lateness of that      *)
(* timer after the round before.                                           *)
(***************************************************************************)
C14_TimeoutAfterDeadline ==
    /\ NothingRendered =>
          /\ TimedOut
          /\ ex.result.chatKey = ex.chatKey
          /\ "messages" \notin DOMAIN ex.result
    /\ TimedOut =>
          /\ ex.lastPoll < ex.deadline
          /\ ex.waitEnded >= ex.deadline
          /\ ex.waitEnded - ex.lastPoll <= PollPause + MaxLate * 100

\* a conversation was clicked, nothing was rendered, the invocation timed out
C14_Witness ==
    /\ TimedOut
    /\ NothingRendered
    /\ ex.waitEnded > ex.deadline

(***************************************************************************)
(* C15.  Every result extractChat returns holds the chatKey of the         *)
(* request, either an error or a message list and not both, and the        *)
(* diagnostics (debug).                                                    *)
(***************************************************************************)
C15_ResultShape ==
    ex.pc = "idle" /\ ex.served > 0 =>
        /\ "chatKey" \in DOMAIN ex.result
        /\ ex.result.chatKey = ex.chatKey
        /\ ("error" \in DOMAIN ex.result) # ("messages" \in DOMAIN ex.result)
        /\ "debug" \in DOMAIN ex.result

\* a step in which the invocation sets scrollTop
Scrolls == ex'.scrolls = ex.scrolls + 1

MaxPaneLen == 9      \* message items in the pane
MaxPerChat == 3      \* settings.messagesPerChat

Letters == << "a", "b", "c", "d", "e", "f", "g", "h", "i", "j", "k" >>

\* who wrote each message item of the pane: the user or the other party
Authors == UNION {[1..m -> {"u", "o"}] : m \in 0..MaxPaneLen}

AuthoredPane(who) ==
    [owner |-> KeyB,
     dom |-> [EmptyPane EXCEPT !.items =
                 [j \in 1..Len(who) |->
                     [sender |-> IF who[j] = "u" THEN <<"K", "a", " ", "b">>
                                 ELSE <<"B", "o", "b">>,
                      time |-> "t1",
                      text |-> <<Letters[j]>>]]],
     container |-> TRUE, older |-> FALSE]

CollectInputs ==
    [pc : {"input"}, who : Authors, messagesPerChat : 0..MaxPerChat,
     result : {[chatKey |-> <<>>]}]

CollectInit ==
    /\ OrchestratorInit
    /\ page = NoPage
    /\ ex = NoExtraction
    /\ scan = NoScan
    /\ match \in CollectInputs

CollectBlock ==
    /\ match.pc = "input"
    /\ match' = [match EXCEPT
           !.pc = "done",
           !.result = CollectResult("linkedin", AuthoredPane(match.who), KeyB,
                          MessagesPerChat([messagesPerChat |->
                                               match.messagesPerChat]),
                          SenderName, <<>>)]
    /\ UNCHANGED << orchestratorVars, page, ex, scan >>

CollectNext == CollectBlock

CollectSpec == CollectInit /\ [][CollectNext]_vars

\* the positions of the user's messages in the pane, and the k-th of them
UserPositions(who) == {j \in 1..Len(who) : who[j] = "u"}

UserPosition(who, k) ==
    CHOOSE j \in UserPositions(who) :
        Cardinality({i \in UserPositions(who) : i <= j}) = k

\* N: the configured messagesPerChat, 8 when it is not set
ConfiguredN ==
    IF match.messagesPerChat = 0 THEN 8 ELSE match.messagesPerChat

(***************************************************************************)
(* C18.  The message list COLLECT returns is the first N of the user's     *)
(* messages of the pane, in document order (all of them when there are     *)
(* fewer than N), each attributed to the user, with N the configured       *)
(* messagesPerChat or 8; and partial is true exactly when the pane holds   *)
(* fewer than N messages of the user.                                      *)
(***************************************************************************)
C18_FirstNOfUser ==
    match.pc = "done" =>
        LET found == Cardinality(UserPositions(match.who))
            messages == match.result.messages
        IN  /\ Len(messages) = Min(ConfiguredN, found)
            /\ \A k \in 1..Len(messages) :
                  /\ messages[k].text = <<Letters[UserPosition(match.who, k)]>>
                  /\ messages[k].sender = SenderName
            /\ match.result.partial <=> found < ConfiguredN

\* more messages of the user than the default N
C18_Witness ==
    /\ match.pc = "done"
    /\ match.messagesPerChat = 0
    /\ Cardinality(UserPositions(match.who)) = 9
    /\ Len(match.result.messages) = 8
    /\ ~match.result.partial

(***************************************************************************)
(* scanInbox: the loop that scrolls the conversation list until the number *)
(* of items stops changing.  The page decides what each round counts.      *)
(* scan: pc, the locals i, prevCount and stableRounds, the result, and a   *)
(* record of the rounds: rounds (iterations begun) and window (the last    *)
(* counts observed, as many as a streak needs, after the 0 the loop        *)
(* starts from).                                                           *)
(***************************************************************************)
MaxCount == 2        \* conversation items the list can hold

ScanMaxScrollAttempts == 30
StableRoundsToStop == 3

ErrNoList == "Cannot find conversation list. Make sure you are on the messaging page."
ErrNoConversations == "No conversations found in the list. Scroll to load some conversations first."

ScanIdle ==
    [pc |-> "idle", i |-> 0, prevCount |-> 0, stableRounds |-> 0,
     result |-> [kind |-> "none"], rounds |-> 0, window |-> <<0>>]

ScanInit ==
    /\ OrchestratorInit
    /\ page = NoPage
    /\ ex = NoExtraction
    /\ match = NoMatch
    /\ scan = ScanIdle

Observed(sc, currentCount) ==
    [sc EXCEPT !.rounds = @ + 1,
               !.window = IF Len(@) = StableRoundsToStop + 1
                          THEN Append(Tail(@), currentCount)
                          ELSE Append(@, currentCount)]

\* the code after the loop: the items are read once more
ScanResult(sc, count) ==
    [sc EXCEPT !.pc = "done",
               !.result = IF count = 0
                          THEN [kind |-> "error", error |-> ErrNoConversations]
                          ELSE [kind |-> "chats", chats |-> count]]

\* a loop that never resets its streak
ScanRound_NoReset(sc, currentCount) ==
    LET seen == Observed(sc, currentCount) IN
    IF currentCount = sc.prevCount
    THEN IF sc.stableRounds + 1 >= StableRoundsToStop
         THEN ScanResult([seen EXCEPT !.stableRounds = @ + 1], currentCount)
         ELSE [seen EXCEPT !.stableRounds = @ + 1, !.prevCount = currentCount,
                           !.pc = "sleep"]
    ELSE [seen EXCEPT !.prevCount = currentCount, !.pc = "sleep"]

\* one iteration of the loop, from the count to the break or the sleep
ScanRound(sc, currentCount) ==
    LET seen == Observed(sc, currentCount) IN
    IF currentCount = sc.prevCount
    THEN IF sc.stableRounds + 1 >= StableRoundsToStop
         THEN ScanResult([seen EXCEPT !.stableRounds = @ + 1], currentCount)
         ELSE [seen EXCEPT !.stableRounds = @ + 1, !.prevCount = currentCount,
                           !.pc = "sleep"]
    ELSE [seen EXCEPT !.stableRounds = 0, !.prevCount = currentCount,
                      !.pc = "sleep"]

\* scanInbox() up to its first sleep
ScanInboxRequest(found, currentCount) ==
    /\ scan.pc = "idle"
    /\ scan' = IF ~found
               THEN [scan EXCEPT !.pc = "done",
                        !.result = [kind |-> "error", error |-> ErrNoList]]
               ELSE ScanRound(scan, currentCount)
    /\ UNCHANGED << orchestratorVars, page, ex, match >>

\* the sleep of the loop is over: i++, the loop test, the next iteration
ScanPauseDone(currentCount) ==
    /\ scan.pc = "sleep"
    /\ scan' = IF scan.i + 1 < ScanMaxScrollAttempts
               THEN ScanRound([scan EXCEPT !.i = @ + 1], currentCount)
               ELSE ScanResult([scan EXCEPT !.i = @ + 1], currentCount)
    /\ UNCHANGED << orchestratorVars, page, ex, match >>

ScanNext ==
    \/ \E found \in BOOLEAN, currentCount \in 0..MaxCount :
          ScanInboxRequest(found, currentCount)
    \/ \E currentCount \in 0..MaxCount : ScanPauseDone(currentCount)

\* the timer of the loop fires
ScanFairSpec ==
    /\ ScanInit
    /\ [][ScanNext]_vars
    /\ WF_vars(\E currentCount \in 0..MaxCount : ScanPauseDone(currentCount))

\* the number of rounds, counted back from the last, whose count was the
\* count of the round before (the loop takes 0 for the count before the
\* first round)
RECURSIVE UnchangedStreak(_)
UnchangedStreak(window) ==
    IF Len(window) < 2 THEN 0
    ELSE IF window[Len(window)] # window[Len(window) - 1] THEN 0
    ELSE 1 + UnchangedStreak(SubSeq(window, 1, Len(window) - 1))

(***************************************************************************)
(* C17.  The scan loop begins at most 30 rounds whatever counts the page   *)
(* shows and does not sleep for ever; it goes on after a round only if     *)
(* the count has not been unchanged for the last 3 rounds, and when it     *)
(* ends before the 30th round the count has been unchanged for the last    *)
(* 3 rounds.                                                               *)
(***************************************************************************)
C17_ScanLoopTerminates ==
    /\ [](scan.rounds <= ScanMaxScrollAttempts)
    /\ [](scan.pc = "sleep" => UnchangedStreak(scan.window) < 3)
    /\ [](scan.pc = "done" /\ scan.result.kind # "error"
            /\ scan.rounds < ScanMaxScrollAttempts
            => UnchangedStreak(scan.window) = 3)
    /\ []<>(scan.pc # "sleep")

\* counts that never settle: the loop ends at the cap
C17_Witness ==
    /\ scan.pc = "done"
    /\ scan.rounds = ScanMaxScrollAttempts
    /\ scan.i = ScanMaxScrollAttempts
    /\ UnchangedStreak(scan.window) = 0

(***************************************************************************)
(* The library functions of selectors.js, redact.js and anonymize.js.      *)
(* They keep no state: the variable match holds one application, its       *)
(* arguments from the start (fn names the function, pc = "input") and its  *)
(* result once the function has been applied (pc = "done").                *)
(*                                                                         *)
(* selectors.js, queryWithFallback and queryAllWithFallback.  A subtree    *)
(* (root) is what each selector matches in it: the matched elements in     *)
(* document order, elements being numbered in document order.  Null (0)    *)
(* is the null of querySelector.  A pair may be missing altogether, and    *)
(* its fallback may be missing ("", falsy as undefined is).                *)
(***************************************************************************)
MaxElems == 3

Null == 0

Selectors == {"p", "f"}

RECURSIVE InDocumentOrder(_)
InDocumentOrder(elements) ==
    IF elements = {} THEN <<>>
    ELSE LET first == CHOOSE e \in elements : \A o \in elements : e <= o
         IN  <<first>> \o InDocumentOrder(elements \ {first})

Roots == [Selectors -> {InDocumentOrder(S) : S \in SUBSET (1..MaxElems)}]

NoSelectorPair == [present |-> FALSE, primary |-> "", fallback |-> ""]

SelectorPairs ==
    {NoSelectorPair} \cup
    [present : {TRUE}, primary : Selectors, fallback : Selectors \cup {""}]

querySelectorAll(root, selector) == root[selector]

querySelector(root, selector) ==
    IF root[selector] = <<>> THEN Null ELSE root[selector][1]

queryWithFallback(root, selectorPair) ==
    IF ~selectorPair.present THEN Null
    ELSE LET el == querySelector(root, selectorPair.primary)
         IN  IF el = Null /\ selectorPair.fallback # ""
             THEN querySelector(root, selectorPair.fallback)
             ELSE el

\* a variant that returns the matches of both selectors
queryAllWithFallback_Merged(root, selectorPair) ==
    IF ~selectorPair.present THEN <<>>
    ELSE querySelectorAll(root, selectorPair.primary)
         \o (IF selectorPair.fallback # ""
             THEN querySelectorAll(root, selectorPair.fallback) ELSE <<>>)

queryAllWithFallback(root, selectorPair) ==
    IF ~selectorPair.present THEN <<>>
    ELSE LET els == querySelectorAll(root, selectorPair.primary)
         IN  IF Len(els) = 0 /\ selectorPair.fallback # ""
             THEN querySelectorAll(root, selectorPair.fallback)
             ELSE els

QueryInputs ==
    [fn : {"queryWithFallback"}, pc : {"input"}, root : Roots,
     selectorPair : SelectorPairs, el : {Null}, els : {<<>>}]

Query ==
    /\ match.fn = "queryWithFallback"
    /\ match.pc = "input"
    /\ match' = [match EXCEPT
           !.pc = "done",
           !.el = queryWithFallback(match.root, match.selectorPair),
           !.els = queryAllWithFallback(match.root, match.selectorPair)]
    /\ UNCHANGED << orchestratorVars, page, ex, scan >>

\* what a locator of the pair matches in the subtree; a missing pair or a
\* missing fallback locates nothing
Located(root, selectorPair, which) ==
    IF ~selectorPair.present THEN <<>>
    ELSE IF which = "primary" THEN root[selectorPair.primary]
    ELSE IF selectorPair.fallback = "" THEN <<>>
    ELSE root[selectorPair.fallback]

FirstOrNull(els) == IF els = <<>> THEN Null ELSE els[1]

(***************************************************************************)
(* C21.  For every selector pair and every subtree, queryWithFallback and  *)
(* queryAllWithFallback return what the fallback locator matches if the    *)
(* primary locator matches nothing, and what the primary locator matches   *)
(* otherwise; the result is the result of one of the two locators, never   *)
(* a mixture, and when nothing matches it is null / the empty sequence.    *)
(***************************************************************************)
C21_FallbackIffPrimaryEmpty ==
    match.fn = "queryWithFallback" /\ match.pc = "done" =>
        LET primary == Located(match.root, match.selectorPair, "primary")
            fallback == Located(match.root, match.selectorPair, "fallback")
        IN  /\ primary = <<>> =>
                match.els = fallback /\ match.el = FirstOrNull(fallback)
            /\ primary # <<>> =>
                match.els = primary /\ match.el = FirstOrNull(primary)
            /\ match.els \in {primary, fallback}
            /\ primary = <<>> /\ fallback = <<>> =>
                match.els = <<>> /\ match.el = Null

\* both locators match, different elements: the fallback's are left out
C21_Witness ==
    /\ match.fn = "queryWithFallback"
    /\ match.pc = "done"
    /\ match.selectorPair.present
    /\ match.selectorPair.primary = "p"
    /\ match.selectorPair.fallback = "f"
    /\ match.root["p"] = <<2>>
    /\ match.root["f"] = <<1, 3>>
    /\ match.els = <<2>>
    /\ match.el = 2

(***************************************************************************)
(* selectors.js, detectPlatform, and the guard at the head of the content  *)
(* script.  PLATFORMS is listed in the order of Object.entries, the order  *)
(* in which the object literal names its keys.  A host pattern becomes the *)
(* regular expression '^' + pattern.replace(/\*/g, '.*') + '$': a star     *)
(* stands for any run of characters, and a dot, which is not escaped, for  *)
(* any one character.                                                      *)
(***************************************************************************)
LinkedinCom == <<"l","i","n","k","e","d","i","n",".","c","o","m">>
InstagramCom == <<"i","n","s","t","a","g","r","a","m",".","c","o","m">>
WhatsappCom == <<"w","h","a","t","s","a","p","p",".","c","o","m">>
TelegramOrg == <<"t","e","l","e","g","r","a","m",".","o","r","g">>
Web == <<"w","e","b",".">>
Www == <<"w","w","w",".">>

PLATFORMS ==
    << [id |-> "linkedin_sales", hostPatterns |-> << <<"*", ".">> \o LinkedinCom >>,
        messagingPath |-> <<"/","s","a","l","e","s","/">>],
       [id |-> "linkedin", hostPatterns |-> << <<"*", ".">> \o LinkedinCom >>,
        messagingPath |-> <<"/","m","e","s","s","a","g","i","n","g","/">>],
       [id |-> "instagram", hostPatterns |-> << <<"*", ".">> \o InstagramCom >>,
        messagingPath |-> <<"/","d","i","r","e","c","t","/">>],
       [id |-> "whatsapp", hostPatterns |-> << Web \o WhatsappCom >>,
        messagingPath |-> <<"/">>],
       [id |-> "telegram", hostPatterns |-> << Web \o TelegramOrg >>,
        messagingPath |-> <<"/">>] >>

\* the null that detectPlatform returns
NoPlatform == "null"

\* regex.test(host) for the expression made of a host pattern
RECURSIVE RegexTest(_, _)
RegexTest(pattern, host) ==
    IF pattern = <<>> THEN host = <<>>
    ELSE IF Head(pattern) = "*"
    THEN \/ RegexTest(Tail(pattern), host)
         \/ host # <<>> /\ RegexTest(pattern, Tail(host))
    ELSE /\ host # <<>>
         /\ Head(pattern) = "." \/ Head(pattern) = Head(host)
         /\ RegexTest(Tail(pattern), Tail(host))

\* a variant that does not look at the path
PlatformMatches_HostOnly(platform, host, path) ==
    \E j \in 1..Len(platform.hostPatterns) :
        RegexTest(platform.hostPatterns[j], host)

\* the test of the inner loop, for some pattern of the platform
PlatformMatches(platform, host, path) ==
    \E j \in 1..Len(platform.hostPatterns) :
        /\ RegexTest(platform.hostPatterns[j], host)
        /\ startsWith(path, platform.messagingPath)

\* the outer loop, from the k-th entry on
RECURSIVE DetectFrom(_, _, _)
DetectFrom(k, host, path) ==
    IF k > Len(PLATFORMS) THEN NoPlatform
    ELSE IF PlatformMatches(PLATFORMS[k], host, path) THEN PLATFORMS[k].id
    ELSE DetectFrom(k + 1, host, path)

detectPlatform(location) == DetectFrom(1, location.hostname, location.pathname)

Hostnames ==
    { Www \o LinkedinCom, LinkedinCom, <<"x">> \o LinkedinCom,
      Www \o InstagramCom, Web \o WhatsappCom, Web \o TelegramOrg,
      WhatsappCom, <<"w","e","b","-">> \o TelegramOrg }

Pathnames ==
    { <<"/">>, <<"/","s","a","l","e","s","/","i","n","b","o","x">>,
      <<"/","s","a","l","e","s">>,
      <<"/","m","e","s","s","a","g","i","n","g","/","t","h","r","e","a","d","/","1">>,
      <<"/","d","i","r","e","c","t","/","t">>, <<"/","f","e","e","d","/">> }

ContentScriptInputs ==
    [fn : {"contentScript"}, pc : {"input"},
     location : [hostname : Hostnames, pathname : Pathnames],
     platformId : {NoPlatform}, listener : {FALSE}, handled : {FALSE}]

\* the content script is run on the page: lines 15 to 55
ContentScriptLoad ==
    /\ match.fn = "contentScript"
    /\ match.pc = "input"
    /\ LET platformId == detectPlatform(match.location) IN
       match' = [match EXCEPT
           !.pc = "loaded",
           !.platformId = platformId,
           !.listener = platformId # NoPlatform]
    /\ UNCHANGED << orchestratorVars, page, ex, scan >>

\* a request of the service worker reaches the listener, if there is one
OnMessage ==
    /\ match.fn = "contentScript"
    /\ match.pc = "loaded"
    /\ match.listener
    /\ match' = [match EXCEPT !.pc = "done", !.handled = TRUE]
    /\ UNCHANGED << orchestratorVars, page, ex, scan >>

\* the platforms of the registry whose rule the location satisfies
MatchingEntries(location) ==
    {k \in 1..Len(PLATFORMS) :
        \E j \in 1..Len(PLATFORMS[k].hostPatterns) :
            /\ RegexTest(PLATFORMS[k].hostPatterns[j], location.hostname)
            /\ IsPrefix(PLATFORMS[k].messagingPath, location.pathname)}

(***************************************************************************)
(* C22.  detectPlatform returns the first platform, in the order of the    *)
(* registry, whose host pattern matches the host and whose messaging path  *)
(* is a prefix of the path, and null when no platform matches; on a page   *)
(* where it returns null the content script registers no listener and      *)
(* handles no request.                                                     *)
(***************************************************************************)
C22_FirstMatchingPlatform ==
    match.fn = "contentScript" /\ match.pc # "input" =>
        LET matching == MatchingEntries(match.location) IN
        /\ matching = {} => /\ match.platformId = NoPlatform
                            /\ ~match.listener
                            /\ ~match.handled
        /\ matching # {} =>
              \E k \in matching :
                  /\ \A h \in matching : k <= h
                  /\ match.platformId = PLATFORMS[k].id

\* a Sales Navigator page is resolved, and a request to it is handled
C22_Witness ==
    /\ match.fn = "contentScript"
    /\ match.pc = "done"
    /\ match.location.hostname = Www \o LinkedinCom
    /\ match.location.pathname = <<"/","s","a","l","e","s","/","i","n","b","o","x">>
    /\ match.platformId = "linkedin_sales"
    /\ match.listener
    /\ match.handled

(***************************************************************************)
(* parseChatItem, and a scan followed by openChat on the same list.  An    *)
(* item of the list is, as for extractChat, [link, href, name, thread].    *)
(* The href of a link is an absolute URL.  Of a summary the model keeps    *)
(* chatKey, displayName and profileUrl; the preview and the time hint are  *)
(* copied text that nothing reads.                                         *)
(***************************************************************************)
MaxListLen == 3

ThreadUrl == <<"h","t","t","p","s",":","/","/","l",".","c","o","/","m","/","t","h","r","e","a","d","/">>
InboxUrl == <<"h","t","t","p","s",":","/","/","l",".","c","o","/","s","/","i","n","b","o","x","/">>
ProfileUrl == <<"h","t","t","p","s",":","/","/","l",".","c","o","/","i","n","/","a","b">>

\* href.match(/(?:thread|inbox)\/([^/?\s]+)/): the leftmost place where
\* 'thread/' or 'inbox/' is followed by a character of an id, and the
\* longest run of such characters from there; <<>> when there is no match
IdMarks == { <<"t","h","r","e","a","d","/">>, <<"i","n","b","o","x","/">> }
IdStops == {"/", "?", " "}

MarkAt(href, j) ==
    {m \in IdMarks : /\ j + Len(m) <= Len(href)
                     /\ SubSeq(href, j, j + Len(m) - 1) = m
                     /\ href[j + Len(m)] \notin IdStops}

HrefMatch(href) ==
    LET places == {j \in 1..Len(href) : MarkAt(href, j) # {}} IN
    IF places = {} THEN <<>>
    ELSE LET j == CHOOSE p \in places : \A q \in places : p <= q
             from == j + Len(CHOOSE m \in MarkAt(href, j) : TRUE)
             to == CHOOSE e \in from..Len(href) :
                       /\ \A h \in from..e : href[h] \notin IdStops
                       /\ e = Len(href) \/ href[e + 1] \in IdStops
         IN  SubSeq(href, from, to)

\* displayName.replace(/\s+/g, '_').toLowerCase(), of a cleaned name
NameKey(displayName) ==
    toLowerCase([j \in 1..Len(displayName) |->
                    IF displayName[j] = " " THEN "_" ELSE displayName[j]])

NoSummary == [chatKey |-> <<>>, displayName |-> <<>>, profileUrl |-> <<>>]

\* a variant that always keys a conversation by its display name
parseChatItem_ByName(itemEl) ==
    LET displayName == cleanText(itemEl.name) IN
    IF displayName = <<>> THEN NoSummary
    ELSE [chatKey |-> <<"c","h","a","t","_">> \o NameKey(displayName),
          displayName |-> displayName,
          profileUrl |-> IF itemEl.link THEN itemEl.href ELSE <<>>]

parseChatItem(itemEl) ==
    LET displayName == cleanText(itemEl.name)
        href == IF itemEl.link THEN itemEl.href ELSE <<>>
        fromLink == IF href = <<>> THEN <<>>
                    ELSE IF HrefMatch(href) # <<>> THEN HrefMatch(href)
                    ELSE href
    IN  IF displayName = <<>> THEN NoSummary
        ELSE [chatKey |-> IF fromLink # <<>> THEN fromLink
                          ELSE <<"c","h","a","t","_">> \o NameKey(displayName),
              displayName |-> displayName,
              profileUrl |-> href]

\* items.map(parseChatItem).filter(Boolean)
ScanChats(items) ==
    SelectSeq([j \in 1..Len(items) |-> parseChatItem(items[j])],
              LAMBDA chat : chat # NoSummary)

\* the conversations of the page: two threads of which one id is the head
\* of the other's, a Sales Navigator thread, a link that is no thread link,
\* two people of the same name without a link, and an item without a name
ListItems ==
    { [link |-> TRUE, href |-> ThreadUrl \o <<"a","b","c","/">>,
       name |-> <<"A","n","n">>, thread |-> <<"t","1">>],
      [link |-> TRUE, href |-> ThreadUrl \o <<"a","b","/">>,
       name |-> <<"B","o","b">>, thread |-> <<"t","2">>],
      [link |-> TRUE, href |-> InboxUrl \o <<"x","9","?","u","=","1">>,
       name |-> <<"C","y">>, thread |-> <<"t","3">>],
      [link |-> TRUE, href |-> ProfileUrl,
       name |-> <<"D","i">>, thread |-> <<"t","4">>],
      [link |-> FALSE, href |-> <<>>,
       name |-> <<"K","a"," "," ","b">>, thread |-> <<"t","5">>],
      [link |-> FALSE, href |-> <<>>,
       name |-> <<"K","a"," ","b">>, thread |-> <<"t","6">>],
      [link |-> TRUE, href |-> ThreadUrl \o <<"n","o">>,
       name |-> <<" ">>, thread |-> <<"t","7">>] }

\* the lists of distinct conversations, up to MaxListLen
UnchangedLists ==
    {list \in UNION {[1..n -> ListItems] : n \in 0..MaxListLen} :
        \A j, h \in 1..Len(list) : j # h => list[j] # list[h]}

RoundTripInputs ==
    [fn : {"scanOpen"}, pc : {"input"}, list : UnchangedLists,
     chats : {<<>>}, scrolled : {0}, again : {<<>>}, asked : {0},
     opened : {[kind |-> "none"]}]

\* a scan of the list, after which the list is scrolled to its end
ScanList ==
    /\ match.fn = "scanOpen"
    /\ match.pc = "input"
    /\ match' = [match EXCEPT !.pc = "scanned",
                              !.chats = ScanChats(match.list),
                              !.scrolled = Len(match.list)]
    /\ UNCHANGED << orchestratorVars, page, ex, scan >>

\* the next scan of the same list
ScanListAgain ==
    /\ match.fn = "scanOpen"
    /\ match.pc = "scanned"
    /\ match' = [match EXCEPT !.pc = "rescanned",
                              !.again = ScanChats(match.list)]
    /\ UNCHANGED << orchestratorVars, page, ex, scan >>

\* openChat with the chatKey of the k-th summary of the scan
OpenScanned(k) ==
    /\ match.fn = "scanOpen"
    /\ match.pc = "rescanned"
    /\ k \in 1..Len(match.chats)
    /\ match' = [match EXCEPT
           !.pc = "opened",
           !.asked = k,
           !.opened = openChat(match.list, MessagingUrl, match.chats[k].chatKey)]
    /\ UNCHANGED << orchestratorVars, page, ex, scan >>

\* the items of the list that a scan gives a summary for, in order: the
\* k-th summary is that of the k-th of them
RECURSIVE Summarised(_)
Summarised(list) ==
    IF list = <<>> THEN <<>>
    ELSE Summarised(SubSeq(list, 1, Len(list) - 1))
         \o (IF trim(list[Len(list)].name) = <<>> THEN <<>>
             ELSE <<list[Len(list)]>>)

\* the id in the path of a thread link: what follows 'thread/' or 'inbox/'
\* up to the next '/' or '?'; <<>> for other links
LinkId(item) ==
    IF ~item.link THEN <<>>
    ELSE LET url == item.href
             base == IF IsPrefix(ThreadUrl, url) THEN Len(ThreadUrl)
                     ELSE IF IsPrefix(InboxUrl, url) THEN Len(InboxUrl)
                     ELSE Len(url)
             rest == SubSeq(url, base + 1, Len(url))
             stops == {j \in 1..Len(rest) : rest[j] \in {"/", "?"}}
         IN  IF stops = {} THEN rest
             ELSE SubSeq(rest, 1, (CHOOSE j \in stops : \A h \in stops : j <= h) - 1)

(***************************************************************************)
(* C23.  Two consecutive scans of the same unchanged list give the same    *)
(* chatKey for every item whose key is derived from its link, and that     *)
(* key is the id in the path of the item's link (the link itself when its  *)
(* path has no id), whatever the position of the item and whatever was     *)
(* scanned or scrolled before.                                             *)
(***************************************************************************)
C23_LinkKeyStable ==
    match.fn = "scanOpen" /\ match.pc \in {"rescanned", "opened"} =>
        LET items == Summarised(match.list) IN
        /\ Len(match.chats) = Len(items)
        /\ Len(match.again) = Len(items)
        /\ \A k \in 1..Len(items) :
               items[k].link =>
                   /\ match.chats[k].chatKey =
                          IF LinkId(items[k]) # <<>> THEN LinkId(items[k])
                          ELSE items[k].href
                   /\ match.again[k].chatKey = match.chats[k].chatKey

\* a list of three thread links has been scanned twice, after a scroll
C23_Witness ==
    /\ match.fn = "scanOpen"
    /\ match.pc = "rescanned"
    /\ match.scrolled = 3
    /\ Len(match.chats) = 3
    /\ match.chats[1].chatKey = <<"a","b">>
    /\ match.chats[2].chatKey = <<"x","9">>
    /\ match.chats[3].chatKey = <<"a","b","c">>
    /\ match.again = match.chats

(***************************************************************************)
(* C24.  Scan/open round trip: for every summary of a scan, openChat with  *)
(* its chatKey on the same unchanged list clicks the item that the         *)
(* summary was made from, whether the key comes from the link or from the  *)
(* display name, and not an item that precedes it in the list.             *)
(***************************************************************************)
C24_OpensScannedItem ==
    match.fn = "scanOpen" /\ match.pc = "opened" =>
        /\ match.opened.kind = "clicked"
        /\ match.opened.thread = Summarised(match.list)[match.asked].thread

(***************************************************************************)
(* sidepanel.js, filterMessages, applied to any short list of messages     *)
(* under any settings of the date inputs and in any of three time zones:   *)
(* universal time, three hours ahead of it, five hours behind it.          *)
(***************************************************************************)
MaxFiltered == 2

ZoneOffsets == {0, 12, -21}

RawDates ==
    { "", "Yesterday", "2024-01-05T10:00:00", "2024-01-05T23:00:00",
      "2024-01-06T00:30:00", "2024-01-06T12:00:00Z", "2024-01-06T23:59:59",
      "2024-01-07T09:30:00" }

\* what a date input holds: nothing, or a day
DateInputs == {"", "2024-01-06"}

FilterSettings ==
    {NoSettings} \cup [dateFrom : DateInputs, dateTo : DateInputs]

FilterInputs ==
    [fn : {"filterMessages"}, pc : {"input"}, zone : ZoneOffsets,
     settings : FilterSettings,
     messages : UNION {[1..n -> [messageDateRaw : RawDates, text : {"m"}]] :
                          n \in 0..MaxFiltered},
     filtered : {<<>>}]

Filter ==
    /\ match.fn = "filterMessages"
    /\ match.pc = "input"
    /\ match' = [match EXCEPT
           !.pc = "done",
           !.filtered = filterMessages(match.messages, match.settings, match.zone)]
    /\ UNCHANGED << orchestratorVars, page, ex, scan >>

\* the time of day and the day that a raw date names, on the clock of the
\* user's zone; none for a raw date that does not parse
LocalTime(raw, zone) == {d + zone : d \in parseLooseDate(raw, zone)}

\* the first and the last instant of a day of the date inputs, on that clock
DayStart(day) == IF day = "2024-01-06" THEN 600 ELSE 0
DayEnd(day) == IF day = "2024-01-06" THEN 699 ELSE 0

\* the rule of the date filter
InRange(msg, settings, zone) ==
    \/ settings = NoSettings
    \/ settings # NoSettings /\ settings.dateFrom = "" /\ settings.dateTo = ""
    \/ LocalTime(msg.messageDateRaw, zone) = {}
    \/ /\ settings # NoSettings
       /\ \A t \in LocalTime(msg.messageDateRaw, zone) :
              /\ settings.dateFrom # "" => DayStart(settings.dateFrom) <= t
              /\ settings.dateTo # "" => t <= DayEnd(settings.dateTo)

(***************************************************************************)
(* C25.  The date filter keeps a message if and only if no dateFrom or     *)
(* dateTo is set, or its raw date does not parse, or its parsed date lies  *)
(* within [dateFrom, dateTo 23:59:59] inclusive; it keeps the order of     *)
(* the kept messages and changes no message.                               *)
(***************************************************************************)
C25_DateFilterRule ==
    match.fn = "filterMessages" /\ match.pc = "done" =>
        match.filtered =
            SelectSeq(match.messages,
                      LAMBDA msg : InRange(msg, match.settings, match.zone))

\* the same, where local time is universal time
C25_DateFilterRuleInUTC ==
    match.fn = "filterMessages" /\ match.pc = "done" /\ match.zone = 0 =>
        match.filtered =
            SelectSeq(match.messages,
                      LAMBDA msg : InRange(msg, match.settings, match.zone))

(***************************************************************************)
(* csv.js (the second half of the file): truncateText.  The inputs are     *)
(* texts of up to MaxOver characters and texts whose body is within        *)
(* MaxOver characters of the limit, each with up to MaxPad blanks before   *)
(* and after it.                                                           *)
(***************************************************************************)
MaxPad == 2
MaxOver == 3

MAX_TEXT_LENGTH == 500

Ellipsis == <<".", ".", ".">>

Repeat(char, n) == [j \in 1..n |-> char]

\* a variant that cuts at maxLength and then adds the ellipsis
truncateText_CutAtLimit(text, maxLength) ==
    IF text = <<>> THEN <<>>
    ELSE LET trimmed == trim(text) IN
         IF Len(trimmed) <= maxLength THEN trimmed
         ELSE SubSeq(trimmed, 1, maxLength) \o Ellipsis

truncateText(text, maxLength) ==
    IF text = <<>> THEN <<>>
    ELSE LET trimmed == trim(text) IN
         IF Len(trimmed) <= maxLength THEN trimmed
         ELSE SubSeq(trimmed, 1, maxLength - 3) \o Ellipsis

BodyLengths ==
    (0..MaxOver) \cup ((MAX_TEXT_LENGTH - MaxOver)..(MAX_TEXT_LENGTH + MaxOver))

TruncateInputs ==
    [fn : {"truncateText"}, pc : {"input"},
     text : {Repeat(" ", a) \o Repeat("x", n) \o Repeat(" ", b) :
                a \in 0..MaxPad, n \in BodyLengths, b \in 0..MaxPad},
     truncated : {<<>>}]

Truncate ==
    /\ match.fn = "truncateText"
    /\ match.pc = "input"
    /\ match' = [match EXCEPT
           !.pc = "done",
           !.truncated = truncateText(match.text, MAX_TEXT_LENGTH)]
    /\ UNCHANGED << orchestratorVars, page, ex, scan >>

EndsWithEllipsis(s) ==
    Len(s) >= 3 /\ SubSeq(s, Len(s) - 2, Len(s)) = Ellipsis

(***************************************************************************)
(* C26, as stated.  truncateText returns a string of exactly 500           *)
(* characters ending in '...' for every input longer than 500 characters,  *)
(* and the trimmed input for every input of at most 500 characters; its    *)
(* output is never longer than 500 characters.                             *)
(***************************************************************************)
C26_TruncateByInputLength ==
    match.fn = "truncateText" /\ match.pc = "done" =>
        /\ Len(match.text) > 500 =>
               Len(match.truncated) = 500 /\ EndsWithEllipsis(match.truncated)
        /\ Len(match.text) <= 500 => match.truncated = trim(match.text)
        /\ Len(match.truncated) <= 500

(***************************************************************************)
(* C26, amended.  truncateText returns a string of exactly 500 characters  *)
(* ending in '...' for every input whose trimmed length is more than 500   *)
(* characters, and the trimmed input for every input whose trimmed length  *)
(* is at most 500 characters; its output is never longer than 500          *)
(* characters.                                                             *)
(***************************************************************************)
C26_TruncateByTrimmedLength ==
    match.fn = "truncateText" /\ match.pc = "done" =>
        /\ Len(trim(match.text)) > 500 =>
               /\ Len(match.truncated) = 500
               /\ EndsWithEllipsis(match.truncated)
               /\ SubSeq(match.truncated, 1, 497) = SubSeq(trim(match.text), 1, 497)
        /\ Len(trim(match.text)) <= 500 => match.truncated = trim(match.text)
        /\ Len(match.truncated) <= 500

\* a text of 501 characters between blanks has been cut to 500
C26_Witness ==
    /\ match.fn = "truncateText"
    /\ match.pc = "done"
    /\ match.text = <<" ">> \o Repeat("x", 501) \o <<" ">>
    /\ match.truncated = Repeat("x", 497) \o Ellipsis

(***************************************************************************)
(* csv.js: escapeCSVField, buildCSVRow and buildCSV.  BOM is the one       *)
(* character U+FEFF.  A field that is missing is the empty string.         *)
(***************************************************************************)
MaxFieldLen == 3
MaxRows == 2

BOM == "BOM"
Quote == "\""
Comma == ","
LF == "\n"
CR == "\r"

CSV_COLUMNS ==
    << <<"P","l","a","t","f","o","r","m">>,
       <<"M","e","s","s","a","g","e"," ","D","a","t","e">>,
       <<"S","e","n","d","e","r">>,
       <<"R","e","c","e","i","v","e","r">>,
       <<"M","e","s","s","a","g","e"," ","T","e","x","t">> >>

Linkedin == <<"L","i","n","k","e","d","i","n">>

\* Array.prototype.join
RECURSIVE Join(_, _)
Join(strings, separator) ==
    IF strings = <<>> THEN <<>>
    ELSE IF Len(strings) = 1 THEN strings[1]
    ELSE strings[1] \o separator \o Join(Tail(strings), separator)

\* str.replace(/"/g, '""')
RECURSIVE DoubleQuotes(_)
DoubleQuotes(str) ==
    IF str = <<>> THEN <<>>
    ELSE (IF Head(str) = Quote THEN <<Quote, Quote>> ELSE <<Head(str)>>)
         \o DoubleQuotes(Tail(str))

\* a variant that wraps a field without doubling its quotes
escapeCSVField_Wrap(value) ==
    IF \E j \in 1..Len(value) : value[j] \in {Quote, Comma, LF, CR}
    THEN <<Quote>> \o value \o <<Quote>>
    ELSE value

escapeCSVField(value) ==
    IF \E j \in 1..Len(value) : value[j] \in {Quote, Comma, LF, CR}
    THEN <<Quote>> \o DoubleQuotes(value) \o <<Quote>>
    ELSE value

buildCSVRow(msg) ==
    Join(<< escapeCSVField(IF msg.platform = <<>> THEN Linkedin ELSE msg.platform),
            escapeCSVField(msg.messageDateRaw),
            escapeCSVField(msg.sender),
            escapeCSVField(msg.receiver),
            escapeCSVField(truncateText(msg.text, MAX_TEXT_LENGTH)) >>,
         <<Comma>>)

\* a variant that ends every row, the last one too, with a line break
buildCSV_RowsTerminated(messages) ==
    <<BOM>> \o Join([j \in 1..5 |-> escapeCSVField(CSV_COLUMNS[j])], <<Comma>>)
            \o <<LF>>
            \o Join([j \in 1..Len(messages) |-> buildCSVRow(messages[j]) \o <<LF>>],
                    <<>>)

buildCSV(messages) ==
    <<BOM>> \o Join([j \in 1..5 |-> escapeCSVField(CSV_COLUMNS[j])], <<Comma>>)
            \o <<LF>>
            \o Join([j \in 1..Len(messages) |-> buildCSVRow(messages[j])], <<LF>>)

\* the fields of the model's messages
FieldChars == {"a", Quote, Comma, LF, CR}

Fields == UNION {[1..n -> FieldChars] : n \in 0..MaxFieldLen}

Texts ==
    { <<>>, <<"a">>, <<" ", "a", " ">>, <<"a", Comma, "a">>,
      <<"a", Quote, "a">>, <<"a", LF, "a">> }

CsvMessages ==
    [platform : {<<>>}, messageDateRaw : {<<"d">>, <<"d", Comma, "1">>},
     sender : {<<"K">>}, receiver : {<<"B">>}, text : Texts]

CsvInputs ==
    [fn : {"buildCSV"}, pc : {"input"},
     messages : UNION {[1..n -> CsvMessages] : n \in 0..MaxRows},
     csv : {<<>>}]

EscapeInputs ==
    [fn : {"escapeCSVField"}, pc : {"input"}, value : Fields, escaped : {<<>>}]

BuildCSV ==
    /\ match.fn = "buildCSV"
    /\ match.pc = "input"
    /\ match' = [match EXCEPT !.pc = "done", !.csv = buildCSV(match.messages)]
    /\ UNCHANGED << orchestratorVars, page, ex, scan >>

EscapeField ==
    /\ match.fn = "escapeCSVField"
    /\ match.pc = "input"
    /\ match' = [match EXCEPT !.pc = "done",
                              !.escaped = escapeCSVField(match.value)]
    /\ UNCHANGED << orchestratorVars, page, ex, scan >>

\* String.prototype.split, for a separator of one character
RECURSIVE Split(_, _)
Split(str, separator) ==
    LET places == {j \in 1..Len(str) : str[j] = separator} IN
    IF places = {} THEN <<str>>
    ELSE LET j == CHOOSE p \in places : \A q \in places : p <= q
         IN  <<SubSeq(str, 1, j - 1)>>
             \o Split(SubSeq(str, j + 1, Len(str)), separator)

\* the standard reading of one record of a CSV file: its fields, unquoted
RECURSIVE ReadRecord(_, _, _, _, _)
ReadRecord(str, j, quoted, field, fields) ==
    IF j > Len(str) THEN Append(fields, field)
    ELSE IF quoted
    THEN IF str[j] # Quote
         THEN ReadRecord(str, j + 1, TRUE, Append(field, str[j]), fields)
         ELSE IF j < Len(str) /\ str[j + 1] = Quote
         THEN ReadRecord(str, j + 2, TRUE, Append(field, Quote), fields)
         ELSE ReadRecord(str, j + 1, FALSE, field, fields)
    ELSE IF str[j] = Comma
    THEN ReadRecord(str, j + 1, FALSE, <<>>, Append(fields, field))
    ELSE IF str[j] = Quote /\ field = <<>>
    THEN ReadRecord(str, j + 1, TRUE, field, fields)
    ELSE ReadRecord(str, j + 1, FALSE, Append(field, str[j]), fields)

Unquoted(str) == ReadRecord(str, 1, FALSE, <<>>, <<>>)

HasLineBreak(msg) ==
    \E str \in {msg.platform, msg.messageDateRaw, msg.sender, msg.receiver,
                msg.text} :
        \E j \in 1..Len(str) : str[j] \in {LF, CR}

HeaderLine == <<BOM>> \o Join(CSV_COLUMNS, <<Comma>>)

\* the fields of the row of a message
RowOf(msg) ==
    << Linkedin, msg.messageDateRaw, msg.sender, msg.receiver, trim(msg.text) >>

(***************************************************************************)
(* C27, as stated.  For every list of messages the output of buildCSV      *)
(* starts with the byte-order marker and the fixed header, and has         *)
(* exactly 1 + messages.length lines, one per message in input order.      *)
(***************************************************************************)
C27_OneLinePerMessage ==
    match.fn = "buildCSV" /\ match.pc = "done" =>
        LET lines == Split(match.csv, LF) IN
        /\ lines[1] = HeaderLine
        /\ Len(lines) = 1 + Len(match.messages)
        /\ \A k \in 1..Len(match.messages) :
               k + 1 <= Len(lines) => Unquoted(lines[k + 1]) = RowOf(match.messages[k])

(***************************************************************************)
(* C27, amended.  For every non-empty list of messages of which no field   *)
(* contains a line break, the output of buildCSV starts with the           *)
(* byte-order marker and the fixed header and, split at line breaks, has   *)
(* exactly 1 + messages.length lines, one per message in input order; for  *)
(* the empty list it is the marker and the header followed by one line     *)
(* break.                                                                  *)
(***************************************************************************)
C27_OneLinePerMessageNoBreaks ==
    match.fn = "buildCSV" /\ match.pc = "done" =>
        LET lines == Split(match.csv, LF) IN
        /\ lines[1] = HeaderLine
        /\ match.messages = <<>> => match.csv = HeaderLine \o <<LF>>
        /\ /\ match.messages # <<>>
           /\ \A k \in 1..Len(match.messages) : ~HasLineBreak(match.messages[k])
           => /\ Len(lines) = 1 + Len(match.messages)
              /\ \A k \in 1..Len(match.messages) :
                     Unquoted(lines[k + 1]) = RowOf(match.messages[k])

\* two messages, with a comma and with a quote in their text: three lines
C27_Witness ==
    /\ match.fn = "buildCSV"
    /\ match.pc = "done"
    /\ Len(match.messages) = 2
    /\ match.messages[1].text = <<"a", Comma, "a">>
    /\ match.messages[2].text = <<"a", Quote, "a">>
    /\ Len(Split(match.csv, LF)) = 3

(***************************************************************************)
(* C28.  escapeCSVField wraps a field in quotes and doubles every quote    *)
(* in it if and only if the field contains a quote, a comma or a line      *)
(* break, and returns every other field unchanged; the standard reading    *)
(* of the result as a CSV record gives back the one original field.        *)
(***************************************************************************)
C28_EscapeRoundTrip ==
    match.fn = "escapeCSVField" /\ match.pc = "done" =>
        LET special == \E j \in 1..Len(match.value) :
                           match.value[j] \in {Quote, Comma, LF, CR}
            quotes == Cardinality({j \in 1..Len(match.value) :
                                      match.value[j] = Quote})
        IN  /\ ~special => match.escaped = match.value
            /\ special => /\ Len(match.escaped) = Len(match.value) + quotes + 2
                          /\ Head(match.escaped) = Quote
                          /\ Last(match.escaped) = Quote
            /\ Unquoted(match.escaped) = <<match.value>>

\* a field with a quote and a comma
C28_Witness ==
    /\ match.fn = "escapeCSVField"
    /\ match.pc = "done"
    /\ match.value = <<"a", Quote, Comma>>
    /\ match.escaped = <<Quote, "a", Quote, Quote, Comma, Quote>>

(***************************************************************************)
(* csv.js: mergeByConversation.  grouped is the Map of the code, as the    *)
(* sequence of its entries in insertion order.                             *)
(***************************************************************************)
MaxMerged == 3

TextSeparator == <<" ", "|", " ">>
DateSeparator == <<";", " ">>

\* the position of the entry of a chatKey in grouped, 0 when it has none
EntryOf(grouped, chatKey) ==
    LET at == {j \in 1..Len(grouped) : grouped[j].chatKey = chatKey} IN
    IF at = {} THEN 0 ELSE CHOOSE j \in at : TRUE

\* the first loop, from the j-th message on
RECURSIVE GroupFrom(_, _, _)
GroupFrom(messages, j, grouped) ==
    IF j > Len(messages) THEN grouped
    ELSE LET msg == messages[j]
             at == EntryOf(grouped, msg.chatKey)
         IN  IF at = 0
             THEN GroupFrom(messages, j + 1,
                      Append(grouped,
                             [platform |-> msg.platform,
                              messageDateRaw |-> msg.messageDateRaw,
                              sender |-> msg.sender, receiver |-> msg.receiver,
                              text |-> msg.text, chatKey |-> msg.chatKey,
                              texts |-> <<msg.text>>]))
             ELSE GroupFrom(messages, j + 1,
                      [grouped EXCEPT
                          ![at].texts = Append(@, msg.text),
                          ![at].messageDateRaw =
                              @ \o DateSeparator \o msg.messageDateRaw])

\* a variant that keeps the text of the first message of a conversation
mergeByConversation_FirstText(messages) ==
    LET grouped == GroupFrom(messages, 1, <<>>) IN
    [j \in 1..Len(grouped) |->
        [platform |-> grouped[j].platform,
         messageDateRaw |-> grouped[j].messageDateRaw,
         sender |-> grouped[j].sender, receiver |-> grouped[j].receiver,
         text |-> truncateText(grouped[j].text, MAX_TEXT_LENGTH),
         chatKey |-> grouped[j].chatKey]]

mergeByConversation(messages) ==
    LET grouped == GroupFrom(messages, 1, <<>>) IN
    [j \in 1..Len(grouped) |->
        [platform |-> grouped[j].platform,
         messageDateRaw |-> grouped[j].messageDateRaw,
         sender |-> grouped[j].sender, receiver |-> grouped[j].receiver,
         text |-> truncateText(Join(grouped[j].texts, TextSeparator),
                               MAX_TEXT_LENGTH),
         chatKey |-> grouped[j].chatKey]]

\* messages of two conversations: a short text, a text that ends in a
\* blank, and a text of 300 characters, each with a date of its own
MergeMessages ==
    { [platform |-> Linkedin, sender |-> <<"K">>, receiver |-> <<"B">>,
       chatKey |-> chatKey, messageDateRaw |-> dated[1], text |-> dated[2]] :
          chatKey \in {"chat1", "chat2"},
          dated \in { << <<"d", "1">>, <<"m">> >>,
                      << <<"d", "2">>, <<"n", " ">> >>,
                      << <<"d", "3">>, Repeat("x", 300) >> } }

MergeInputs ==
    [fn : {"mergeByConversation"}, pc : {"input"},
     messages : UNION {[1..n -> MergeMessages] : n \in 0..MaxMerged},
     merged : {<<>>}]

Merge ==
    /\ match.fn = "mergeByConversation"
    /\ match.pc = "input"
    /\ match' = [match EXCEPT !.pc = "done",
                              !.merged = mergeByConversation(match.messages)]
    /\ UNCHANGED << orchestratorVars, page, ex, scan >>

\* the messages of a conversation, in input order
OfConversation(messages, chatKey) ==
    SelectSeq(messages, LAMBDA msg : msg.chatKey = chatKey)

\* the chatKeys of the messages in order of first appearance
RECURSIVE FirstAppearances(_)
FirstAppearances(messages) ==
    IF messages = <<>> THEN <<>>
    ELSE LET before == FirstAppearances(SubSeq(messages, 1, Len(messages) - 1))
             chatKey == messages[Len(messages)].chatKey
         IN  IF \E j \in 1..Len(before) : before[j] = chatKey THEN before
             ELSE Append(before, chatKey)

\* one row for each chatKey, in order of first appearance, with the raw
\* dates of the conversation joined by '; '
OneRowPerConversation ==
    LET keys == FirstAppearances(match.messages) IN
    /\ Len(match.merged) = Len(keys)
    /\ \A k \in 1..Len(keys) :
           LET conversation == OfConversation(match.messages, keys[k]) IN
           /\ match.merged[k].chatKey = keys[k]
           /\ match.merged[k].messageDateRaw =
                  Join([j \in 1..Len(conversation) |->
                           conversation[j].messageDateRaw], DateSeparator)

\* the texts of the conversation of the k-th row, joined by the separator
JoinedTexts(k) ==
    LET conversation == OfConversation(match.messages, match.merged[k].chatKey)
    IN  Join([j \in 1..Len(conversation) |-> conversation[j].text], TextSeparator)

(***************************************************************************)
(* C29, as stated.  mergeByConversation returns exactly one row for each   *)
(* distinct chatKey, in order of first appearance; the text of the row     *)
(* contains the text of every message of the conversation, joined by the   *)
(* separator, and its raw dates are those of the messages joined by '; '.  *)
(***************************************************************************)
C29_RowHoldsEveryText ==
    match.fn = "mergeByConversation" /\ match.pc = "done" =>
        /\ OneRowPerConversation
        /\ \A k \in 1..Len(match.merged) : includes(match.merged[k].text, JoinedTexts(k))

(***************************************************************************)
(* C29, amended.  mergeByConversation returns exactly one row for each     *)
(* distinct chatKey, in order of first appearance; the text of the row is  *)
(* the text of every message of the conversation joined by the separator,  *)
(* trimmed, and cut to 500 characters ending in '...' when it is longer    *)
(* than that; its raw dates are those of the messages joined by '; '.      *)
(***************************************************************************)
C29_RowHoldsJoinedTextCut ==
    match.fn = "mergeByConversation" /\ match.pc = "done" =>
        /\ OneRowPerConversation
        /\ \A k \in 1..Len(match.merged) :
               LET joined == trim(JoinedTexts(k)) IN
               match.merged[k].text =
                   IF Len(joined) <= 500 THEN joined
                   ELSE SubSeq(joined, 1, 497) \o Ellipsis

\* the test of the repository: two messages of chat1, then one of chat2
C29_Witness ==
    /\ match.fn = "mergeByConversation"
    /\ match.pc = "done"
    /\ Len(match.messages) = 3
    /\ match.messages[1].chatKey = "chat1"
    /\ match.messages[2].chatKey = "chat1"
    /\ match.messages[3].chatKey = "chat2"
    /\ match.messages[1].text = <<"m">>
    /\ match.messages[2].text = <<"n", " ">>
    /\ Len(match.merged) = 2
    /\ match.merged[1].text = <<"m", " ", "|", " ", "n">>
    /\ match.merged[1].messageDateRaw = <<"d", "1", ";", " ", "d", "2">>

(***************************************************************************)
(* anonymize.js: anonymizeContact.  HMAC-SHA256 is not computed: a keyed   *)
(* checksum of 32 bytes stands for it, a function of the bytes of the key  *)
(* and of the message as the HMAC is.  What is computed as the code        *)
(* computes it is everything around it: the trim, the lower-casing, the    *)
(* hexadecimal encoding with its padding, the cut and the upper-casing.    *)
(* The state holds two applications under one key.                         *)
(***************************************************************************)
MaxContactLen == 3

SignatureBytes == 32

\* TextEncoder.encode, for the characters of the model
CharCode(char) ==
    CASE char = " " -> 32
      [] char = "K" -> 75
      [] char = "k" -> 107
      [] char = "a" -> 97
      [] char = "b" -> 98
      [] OTHER -> 63

RECURSIVE Checksum(_, _)
Checksum(bytes, weight) ==
    IF bytes = <<>> THEN 0
    ELSE (Head(bytes) * weight + 7 * Checksum(Tail(bytes), weight + 1)) % 256

\* crypto.subtle.sign('HMAC', key, messageData): 32 bytes
Sign(keyData, messageData) ==
    [i \in 1..SignatureBytes |->
        (Checksum(keyData, i) + 3 * Checksum(messageData, i + 1) + 5 * i) % 256]

HexDigits == <<"0","1","2","3","4","5","6","7","8","9","a","b","c","d","e","f">>

\* b.toString(16).padStart(2, '0')
ByteToHex(b) == << HexDigits[(b \div 16) + 1], HexDigits[(b % 16) + 1] >>

\* toUpperCase, of hexadecimal digits
HexToUpperCase(s) ==
    [j \in 1..Len(s) |->
        CASE s[j] = "a" -> "A" [] s[j] = "b" -> "B" [] s[j] = "c" -> "C"
          [] s[j] = "d" -> "D" [] s[j] = "e" -> "E" [] s[j] = "f" -> "F"
          [] OTHER -> s[j]]

ContactPrefix == <<"C","O","N","T","A","C","T","_">>

\* a variant that signs the name as it is written
anonymizeContact_AsWritten(displayName, saltHex) ==
    LET keyData == [j \in 1..Len(saltHex) |-> CharCode(saltHex[j])]
        message == trim(displayName)
        messageData == [j \in 1..Len(message) |-> CharCode(message[j])]
        signature == Sign(keyData, messageData)
        hashHex == Join([i \in 1..SignatureBytes |-> ByteToHex(signature[i])], <<>>)
    IN  ContactPrefix \o HexToUpperCase(SubSeq(hashHex, 1, 8))

anonymizeContact(displayName, saltHex) ==
    LET keyData == [j \in 1..Len(saltHex) |-> CharCode(saltHex[j])]
        message == toLowerCase(trim(displayName))
        messageData == [j \in 1..Len(message) |-> CharCode(message[j])]
        signature == Sign(keyData, messageData)
        hashHex == Join([i \in 1..SignatureBytes |-> ByteToHex(signature[i])], <<>>)
    IN  ContactPrefix \o HexToUpperCase(SubSeq(hashHex, 1, 8))

DisplayNames == UNION {[1..n -> {"K", "k", " "}] : n \in 0..MaxContactLen}

Salts == { <<"a", "a">>, <<"a", "b">> }

AnonymizeInputs ==
    [fn : {"anonymizeContact"}, pc : {"input"}, saltHex : Salts,
     displayName : DisplayNames, other : DisplayNames,
     token : {<<>>}, otherToken : {<<>>}]

Anonymize ==
    /\ match.fn = "anonymizeContact"
    /\ match.pc = "input"
    /\ match' = [match EXCEPT
           !.pc = "done",
           !.token = anonymizeContact(match.displayName, match.saltHex),
           !.otherToken = anonymizeContact(match.other, match.saltHex)]
    /\ UNCHANGED << orchestratorVars, page, ex, scan >>

\* 'CONTACT_' and 8 upper-case hexadecimal characters
IsToken(s) ==
    /\ Len(s) = 16
    /\ SubSeq(s, 1, 8) = ContactPrefix
    /\ \A j \in 9..16 :
           s[j] \in {"0","1","2","3","4","5","6","7","8","9",
                     "A","B","C","D","E","F"}

\* the two names differ in case and in leading or trailing blanks at most
SameButCaseAndBlanks(a, b) ==
    LET fold(s) == [j \in 1..Len(s) |-> IF s[j] = "k" THEN "K" ELSE s[j]]
        strip(s) == IF \A j \in 1..Len(s) : s[j] = " " THEN <<>>
                    ELSE LET first == CHOOSE j \in 1..Len(s) :
                                 s[j] # " " /\ \A h \in 1..(j - 1) : s[h] = " "
                             last == CHOOSE j \in 1..Len(s) :
                                 s[j] # " " /\ \A h \in (j + 1)..Len(s) : s[h] = " "
                         IN  SubSeq(s, first, last)
    IN  fold(strip(a)) = fold(strip(b))

(***************************************************************************)
(* C30.  anonymizeContact is a function of the trimmed, lower-cased name   *)
(* and the key: two names that differ only in case or in leading or        *)
(* trailing blanks get the same token under the same key, and every token  *)
(* is 'CONTACT_' followed by exactly 8 upper-case hexadecimal characters.  *)
(***************************************************************************)
C30_TokenOfFoldedName ==
    match.fn = "anonymizeContact" /\ match.pc = "done" =>
        /\ IsToken(match.token)
        /\ IsToken(match.otherToken)
        /\ SameButCaseAndBlanks(match.displayName, match.other) =>
               match.token = match.otherToken

\* 'Kk' and ' kK': one token
C30_Witness ==
    /\ match.fn = "anonymizeContact"
    /\ match.pc = "done"
    /\ match.displayName = <<"K", "k">>
    /\ match.other = <<" ", "k", "K">>
    /\ match.token = match.otherToken
    /\ IsToken(match.token)

(***************************************************************************)
(* redact.js.  A pattern is a list of alternatives in priority order, an   *)
(* alternative a sequence of greedy quantified character classes           *)
(* class{min,max}, max = 0 for no upper limit: (?:X)?Y is X Y before Y.    *)
(* The classes are the regular expressions' classes within the characters  *)
(* of the model's texts.  String.prototype.replace with a /g pattern       *)
(* scans from the left: at a position where the pattern matches, the       *)
(* match in priority order is replaced and the scan goes on behind it.     *)
(***************************************************************************)
MaxPieces == 2

LowerCase == {"a", "c", "e", "h", "m", "o", "p", "s", "t", "x"}
UpperCase == {"A", "E", "H", "I", "L", "M", "N", "O", "P", "R", "S", "T", "U"}
Digit == {"0", "1", "2", "3", "4", "5", "6", "7", "8", "9"}
WhiteSpace == {" ", LF}

TextAlphabet ==
    LowerCase \cup UpperCase \cup Digit \cup WhiteSpace
    \cup {".", "_", "%", "+", "-", "@", "(", ")", ":", "/", "?", "=", Comma,
          "[", "]"}

Item(class, min, max) == [class |-> class, min |-> min, max |-> max]

\* /[a-zA-Z0-9._%+\-]+@[a-zA-Z0-9.\-]+\.[a-zA-Z]{2,}/
EmailRegex ==
    << << Item(LowerCase \cup UpperCase \cup Digit \cup {".", "_", "%", "+", "-"}, 1, 0),
          Item({"@"}, 1, 1),
          Item(LowerCase \cup UpperCase \cup Digit \cup {".", "-"}, 1, 0),
          Item({"."}, 1, 1),
          Item(LowerCase \cup UpperCase, 2, 0) >> >>

\* /(?:\+?\d{1,3}[-.\s]?)?\(?\d{2,4}\)?[-.\s]?\d{3,4}[-.\s]?\d{3,4}/
PhoneRegex ==
    LET separator == {"-", "."} \cup WhiteSpace
        number == << Item({"("}, 0, 1), Item(Digit, 2, 4), Item({")"}, 0, 1),
                     Item(separator, 0, 1), Item(Digit, 3, 4),
                     Item(separator, 0, 1), Item(Digit, 3, 4) >>
    IN  << << Item({"+"}, 0, 1), Item(Digit, 1, 3), Item(separator, 0, 1) >>
              \o number,
           number >>

\* /https?:\/\/[^\s<>"{}|\\^`\[\]]+/i
UrlRegex ==
    << << Item({"h", "H"}, 1, 1), Item({"t", "T"}, 1, 1), Item({"t", "T"}, 1, 1),
          Item({"p", "P"}, 1, 1), Item({"s", "S"}, 0, 1), Item({":"}, 1, 1),
          Item({"/"}, 1, 1), Item({"/"}, 1, 1),
          Item(TextAlphabet \ (WhiteSpace \cup {"[", "]"}), 1, 0) >> >>

PII_PATTERNS ==
    << [name |-> "email", regex |-> EmailRegex, replacement |-> <<"[","E","M","A","I","L","]">>],
       [name |-> "phone", regex |-> PhoneRegex, replacement |-> <<"[","P","H","O","N","E","]">>],
       [name |-> "url", regex |-> UrlRegex, replacement |-> <<"[","U","R","L","]">>] >>

\* the characters from position i on that are in the class, cap at most
RECURSIVE RunLength(_, _, _, _)
RunLength(str, i, class, cap) ==
    IF cap = 0 \/ i > Len(str) THEN 0
    ELSE IF str[i] \notin class THEN 0
    ELSE 1 + RunLength(str, i + 1, class, cap - 1)

\* the position behind the first match, in priority order, of the items
\* from the k-th on at position i; 0 when there is none.  MatchTaking
\* tries the k-th item with n characters, then with fewer.
RECURSIVE MatchFrom(_, _, _, _)
RECURSIVE MatchTaking(_, _, _, _, _)
MatchFrom(str, i, items, k) ==
    IF k > Len(items) THEN i
    ELSE MatchTaking(str, i, items, k,
             RunLength(str, i, items[k].class,
                       IF items[k].max = 0 THEN Len(str) ELSE items[k].max))

MatchTaking(str, i, items, k, n) ==
    IF n < items[k].min THEN 0
    ELSE LET end == MatchFrom(str, i + n, items, k + 1) IN
         IF end # 0 THEN end ELSE MatchTaking(str, i, items, k, n - 1)

\* the position behind the match of the pattern at position i, 0 for none
RECURSIVE MatchAt(_, _, _, _)
MatchAt(str, i, regex, alternative) ==
    IF alternative > Len(regex) THEN 0
    ELSE LET end == MatchFrom(str, i, regex[alternative], 1) IN
         IF end # 0 THEN end ELSE MatchAt(str, i, regex, alternative + 1)

\* str.replace(regex, replacement), from position i on
RECURSIVE Replace(_, _, _, _)
Replace(str, i, regex, replacement) ==
    IF i > Len(str) THEN <<>>
    ELSE LET end == MatchAt(str, i, regex, 1) IN
         IF end # 0 THEN replacement \o Replace(str, end, regex, replacement)
         ELSE <<str[i]>> \o Replace(str, i + 1, regex, replacement)

\* the loop over the patterns, from the k-th on
RECURSIVE RedactLoop(_, _, _, _)
RedactLoop(patterns, result, patternsToRedact, k) ==
    IF k > Len(patterns) THEN result
    ELSE RedactLoop(patterns,
             IF patterns[k].name \in patternsToRedact
             THEN Replace(result, 1, patterns[k].regex, patterns[k].replacement)
             ELSE result,
             patternsToRedact, k + 1)

\* a variant that looks for phone numbers before it looks for e-mail addresses
redactPII_PhoneFirst(text, patternsToRedact) ==
    IF text = <<>> THEN <<>>
    ELSE RedactLoop(<<PII_PATTERNS[2], PII_PATTERNS[1], PII_PATTERNS[3]>>,
                    text, patternsToRedact, 1)

redactPII(text, patternsToRedact) ==
    IF text = <<>> THEN <<>>
    ELSE RedactLoop(PII_PATTERNS, text, patternsToRedact, 1)

\* the texts of the model: up to MaxPieces of these pieces in a row
Pieces ==
    { <<"a"," ">>, <<"t","@","a",".","c","o">>, <<"@","a",".","c","o">>, <<"5","5","5","1","2","3","4","5">>, <<"+","1","-","2","3","4","-","5","6","7","-","8","9","0","1">>,
      <<"h","t","t","p",":","/","/","x",".","c","o">>, <<"/","5","5","5","1","2","3","4","5">>, <<"N","o"," ","P","I","I">> }

RECURSIVE InARow(_)
InARow(pieces) ==
    IF pieces = <<>> THEN <<>> ELSE Head(pieces) \o InARow(Tail(pieces))

PiiTexts == {InARow(pieces) : pieces \in UNION {[1..n -> Pieces] : n \in 0..MaxPieces}}

PatternNames == {"email", "phone", "url"}

RedactInputs ==
    [fn : {"redactPII"}, pc : {"input"}, text : PiiTexts,
     patternsToRedact : SUBSET PatternNames, redacted : {<<>>}]

Redact ==
    /\ match.fn = "redactPII"
    /\ match.pc = "input"
    /\ match' = [match EXCEPT
           !.pc = "done",
           !.redacted = redactPII(match.text, match.patternsToRedact)]
    /\ UNCHANGED << orchestratorVars, page, ex, scan >>

\* the pattern of a name
PatternOf(name) == CHOOSE pattern \in {PII_PATTERNS[k] : k \in 1..3} : pattern.name = name

\* one pass over a text: the pattern is applied when it is enabled
Pass(name, patternsToRedact, str) ==
    IF name \in patternsToRedact
    THEN Replace(str, 1, PatternOf(name).regex, PatternOf(name).replacement)
    ELSE str

\* the matches that a scan of the text for the pattern finds, from
\* position i on: pairs of the first position and the position behind
RECURSIVE ScanMatches(_, _, _)
ScanMatches(str, i, regex) ==
    IF i > Len(str) THEN {}
    ELSE LET end == MatchAt(str, i, regex, 1) IN
         IF end # 0 THEN {<<i, end>>} \cup ScanMatches(str, end, regex)
         ELSE ScanMatches(str, i + 1, regex)

\* an enabled pattern matches at a position of the text
SomeEnabledMatch(str, patternsToRedact) ==
    \E name \in patternsToRedact : \E j \in 1..Len(str) :
        MatchAt(str, j, PatternOf(name).regex, 1) # 0

\* an enabled pattern matches characters of str[from .. behind - 1]
Overlapped(str, from, behind, patternsToRedact) ==
    \E name \in patternsToRedact : \E j \in 1..(behind - 1) :
        LET end == MatchAt(str, j, PatternOf(name).regex, 1) IN
        end # 0 /\ end > from

\* the match is in the result as it was, between the redacted texts
\* before it and behind it
Untouched(str, from, behind, patternsToRedact, result) ==
    result = redactPII(SubSeq(str, 1, from - 1), patternsToRedact)
             \o SubSeq(str, from, behind - 1)
             \o redactPII(SubSeq(str, behind, Len(str)), patternsToRedact)

InFixedOrder ==
    match.redacted =
        IF match.text = <<>> THEN <<>>
        ELSE Pass("url", match.patternsToRedact,
                 Pass("phone", match.patternsToRedact,
                     Pass("email", match.patternsToRedact, match.text)))

(***************************************************************************)
(* C33, as stated.  redactPII applies the enabled patterns once each in    *)
(* the order email, phone, URL, each pass on the output of the previous    *)
(* one; a text with no match is returned unchanged; every match of a       *)
(* pattern that is not listed in patternsToRedact is in the result as it   *)
(* was.                                                                    *)
(***************************************************************************)
C33_UnlistedMatchesUntouched ==
    match.fn = "redactPII" /\ match.pc = "done" =>
        /\ InFixedOrder
        /\ ~SomeEnabledMatch(match.text, match.patternsToRedact) =>
               match.redacted = match.text
        /\ \A name \in PatternNames \ match.patternsToRedact :
               \A m \in ScanMatches(match.text, 1, PatternOf(name).regex) :
                   Untouched(match.text, m[1], m[2], match.patternsToRedact,
                             match.redacted)

(***************************************************************************)
(* C33, amended.  redactPII applies the enabled patterns once each in the  *)
(* order email, phone, URL, each pass on the output of the previous one;   *)
(* a text with no match is returned unchanged; a match of a pattern that   *)
(* is not listed in patternsToRedact is in the result as it was unless a   *)
(* listed pattern matches characters of it.                                *)
(***************************************************************************)
C33_UnlistedUntouchedUnlessOverlapped ==
    match.fn = "redactPII" /\ match.pc = "done" =>
        /\ InFixedOrder
        /\ ~SomeEnabledMatch(match.text, match.patternsToRedact) =>
               match.redacted = match.text
        /\ \A name \in PatternNames \ match.patternsToRedact :
               \A m \in ScanMatches(match.text, 1, PatternOf(name).regex) :
                   ~Overlapped(match.text, m[1], m[2], match.patternsToRedact)
                   => Untouched(match.text, m[1], m[2], match.patternsToRedact,
                                match.redacted)

\* phone numbers only: the address stays, the number behind it is replaced
C33_Witness ==
    /\ match.fn = "redactPII"
    /\ match.pc = "done"
    /\ match.patternsToRedact = {"phone"}
    /\ match.text = <<"t","@","a",".","c","o","5","5","5","1","2","3","4","5">>
    /\ match.redacted = <<"t","@","a",".","c","o","[","P","H","O","N","E","]">>

(***************************************************************************)
(* exportToFile, whole.  The message router starts a handler for every     *)
(* request and waits for none: export requests of the side panels of two   *)
(* windows are handled side by side, each going on at its own awaits.      *)
(* In this specification export maps every request slot to the invocation  *)
(* it holds (its position, its locals and, once it has returned, its       *)
(* response and the file it handed to chrome.downloads), and storage has   *)
(* the keys 'extractedMessages', 'settings' and 'anonSalt' (<<>>: not      *)
(* stored).  No run is in progress: the accumulated list is an input, in   *)
(* memory, in storage, or both.                                            *)
(***************************************************************************)
MaxExports == 2

ExportIds == 1..MaxExports

ErrNoMessages == "No messages to export. Process some chats first."
ErrDownloadFailed == "Download failed: "

DefaultSettings == [rowMode |-> "message", redactPII |-> TRUE]

\* result.settings || { ... }
getSettings(stored) == IF stored = NoSettings THEN DefaultSettings ELSE stored

\* the anonymize branch: a new list of new messages, { ...msg, receiver, text }
Anonymized(messages, salt, settings) ==
    [j \in 1..Len(messages) |->
        [messages[j] EXCEPT
            !.receiver = anonymizeContact(@, salt),
            !.text = IF settings.redactPII THEN redactPII(@, PatternNames)
                     ELSE @]]

\* the row mode and the encoding
Rows(messages, settings) ==
    IF settings.rowMode = "conversation" THEN mergeByConversation(messages)
    ELSE messages

\* a variant in which the pipeline works on the accumulated messages
\* themselves and leaves them as it exported them
AfterPipeline_InPlace(accumulated, exported) ==
    IF Len(exported) = Len(accumulated) THEN exported ELSE accumulated

\* let messages = [...extractedMessages], { ...msg }, and the new entries
\* of mergeByConversation: the pipeline works on copies, and the
\* accumulated list is after it what it was before
AfterPipeline(accumulated, exported) == accumulated

NoExport ==
    [pc |-> "idle", anonymize |-> FALSE, settings |-> NoSettings,
     messages |-> <<>>, salt |-> <<>>, csv |-> <<>>, started |-> FALSE,
     response |-> [kind |-> "none"]]

\* from the pipeline to chrome.downloads.download, with the salt if any
StartDownload(e, slot, salt) ==
    LET exported == IF slot.anonymize
                    THEN Anonymized(slot.messages, salt, slot.settings)
                    ELSE slot.messages
        rows == Rows(exported, slot.settings)
    IN  /\ export' = [export EXCEPT ![e] =
               [slot EXCEPT !.pc = "download", !.salt = salt,
                            !.messages = rows, !.csv = buildCSV(rows),
                            !.started = TRUE]]
        /\ extractedMessages' = AfterPipeline(extractedMessages, exported)

\* case 'exportCSV' / 'exportAnonCSV': with messages in memory the handler
\* goes on to getSettings, with none it asks storage for them
ExportRequested(e, anonymize) ==
    /\ export[e].pc \in {"idle", "returned"}
    /\ export' = [export EXCEPT ![e] =
           [NoExport EXCEPT
               !.pc = IF Len(extractedMessages) = 0 THEN "storageGet"
                      ELSE "getSettings",
               !.anonymize = anonymize]]
    /\ UNCHANGED << extractedMessages, runState, isProcessing, currentTabId,
                    storage, runs, progressUpdate, contentVars >>

\* chrome.storage.local.get(['extractedMessages']) has resolved: the
\* restore, and the test for an empty list
RestoreDone(e) ==
    /\ export[e].pc = "storageGet"
    /\ LET restored ==
               IF Len(extractedMessages) = 0 /\ Len(storage.extractedMessages) > 0
               THEN storage.extractedMessages
               ELSE extractedMessages
       IN  /\ extractedMessages' = restored
           /\ export' = [export EXCEPT ![e] =
                  IF Len(restored) = 0
                  THEN [@ EXCEPT !.pc = "returned",
                                 !.response = [kind |-> "error",
                                               error |-> ErrNoMessages]]
                  ELSE [@ EXCEPT !.pc = "getSettings"]]
    /\ UNCHANGED << runState, isProcessing, currentTabId, storage, runs,
                    progressUpdate, contentVars >>

\* getSettings has resolved: the copy of the list; a plain export goes on
\* to the download, an anonymized one calls getOrCreateSalt
SettingsRead(e) ==
    /\ export[e].pc = "getSettings"
    /\ LET slot == [export[e] EXCEPT !.settings = getSettings(storage.settings),
                                     !.messages = extractedMessages]
       IN  IF slot.anonymize
           THEN /\ export' = [export EXCEPT ![e] = [slot EXCEPT !.pc = "saltGet"]]
                /\ UNCHANGED extractedMessages
           ELSE StartDownload(e, slot, <<>>)
    /\ UNCHANGED << runState, isProcessing, currentTabId, storage, runs,
                    progressUpdate, contentVars >>

\* getOrCreateSalt, the callback of chrome.storage.local.get(['anonSalt']):
\* a stored salt is the result; with none, generateSalt and storage.set
SaltRead(e) ==
    /\ export[e].pc = "saltGet"
    /\ IF storage.anonSalt # <<>>
       THEN StartDownload(e, export[e], storage.anonSalt)
       ELSE /\ \E salt \in Salts :
                  export' = [export EXCEPT ![e] =
                      [@ EXCEPT !.pc = "saltSet", !.salt = salt]]
            /\ UNCHANGED extractedMessages
    /\ UNCHANGED << runState, isProcessing, currentTabId, storage, runs,
                    progressUpdate, contentVars >>

\* the callback of chrome.storage.local.set({ anonSalt: salt })
SaltStored(e) ==
    /\ export[e].pc = "saltSet"
    /\ storage' = [storage EXCEPT !.anonSalt = export[e].salt]
    /\ StartDownload(e, export[e], export[e].salt)
    /\ UNCHANGED << runState, isProcessing, currentTabId, runs,
                    progressUpdate, contentVars >>

\* chrome.downloads.download has resolved: { ok: true, count }
DownloadDone(e) ==
    /\ export[e].pc = "download"
    /\ export' = [export EXCEPT ![e] =
           [@ EXCEPT !.pc = "returned",
                     !.response = [kind |-> "ok",
                                   count |-> Len(export[e].messages)]]]
    /\ UNCHANGED << extractedMessages, runState, isProcessing, currentTabId,
                    storage, runs, progressUpdate, contentVars >>

\* a variant in which a rejected download ends the export with no response
DownloadFailed_Silent(e) ==
    /\ export[e].pc = "download"
    /\ export' = [export EXCEPT ![e] = [@ EXCEPT !.pc = "returned"]]
    /\ UNCHANGED << extractedMessages, runState, isProcessing, currentTabId,
                    storage, runs, progressUpdate, contentVars >>

\* chrome.downloads.download has rejected: { error: 'Download failed: ...' }
DownloadFailed(e) ==
    /\ export[e].pc = "download"
    /\ export' = [export EXCEPT ![e] =
           [@ EXCEPT !.pc = "returned",
                     !.response = [kind |-> "error",
                                   error |-> ErrDownloadFailed]]]
    /\ UNCHANGED << extractedMessages, runState, isProcessing, currentTabId,
                    storage, runs, progressUpdate, contentVars >>

\* the accumulated lists of the model: two messages, of one conversation
\* or of two, with an address, a plain text and a number
ExportMessages ==
    LET m(chatKey, date, receiver, text) ==
            [platform |-> Linkedin, messageDateRaw |-> date, sender |-> <<"K">>,
             receiver |-> receiver, text |-> text, chatKey |-> chatKey]
        first == m("chat1", <<"d","1">>, <<"k", " ">>, <<"t","@","a",".","c","o">>)
        second == m("chat1", <<"d","2">>, <<"k", " ">>, <<"a"," ">>)
        other == m("chat2", <<"d","3">>, <<"K">>, <<"5","5","5","1","2","3","4","5">>)
    IN  { <<first, second>>, <<other, first>> }

\* the stored settings: none (the default: one row per message, redacted),
\* and every other choice of the two settings that the export reads
StoredSettings ==
    {NoSettings} \cup
    ([rowMode : {"message", "conversation"}, redactPII : BOOLEAN]
         \ {DefaultSettings})

DownloadInit ==
    /\ runState = EmptyRunState
    /\ isProcessing = FALSE
    /\ currentTabId = 0
    /\ runs = [r \in RunIds |-> NoRun]
    /\ progressUpdate = NoProgress
    /\ page = NoPage
    /\ ex = NoExtraction
    /\ scan = NoScan
    /\ match = NoMatch
    /\ export = [e \in ExportIds |-> NoExport]
    /\ \E messages \in ExportMessages \cup {<<>>} :
          /\ extractedMessages \in {messages, <<>>}
          /\ storage \in [extractedMessages : {messages, <<>>},
                          settings : StoredSettings,
                          anonSalt : Salts \cup {<<>>}]

DownloadNext ==
    \/ \E e \in ExportIds : \E anonymize \in BOOLEAN : ExportRequested(e, anonymize)
    \/ \E e \in ExportIds : RestoreDone(e)
    \/ \E e \in ExportIds : SettingsRead(e)
    \/ \E e \in ExportIds : SaltRead(e)
    \/ \E e \in ExportIds : SaltStored(e)
    \/ \E e \in ExportIds : DownloadDone(e)
    \/ \E e \in ExportIds : DownloadFailed(e)

DownloadSpec == DownloadInit /\ [][DownloadNext]_vars

\* the fragment occurs in the string
Occurs(fragment, str) ==
    \E j \in 0..(Len(str) - Len(fragment)) :
        SubSeq(str, j + 1, j + Len(fragment)) = fragment

\* the invocations in which getOrCreateSalt has returned
HasKey(e) ==
    export[e].anonymize /\ export[e].pc \in {"download", "returned"}
    /\ export[e].started

(***************************************************************************)
(* C31.  Every call of getOrCreateSalt returns the same key, two           *)
(* concurrent calls with no key stored included; that key is the one in    *)
(* local storage; a key once stored is never replaced; and no exported     *)
(* file contains the key.                                                  *)
(***************************************************************************)
C31_OneKey ==
    \A e \in ExportIds : HasKey(e) =>
        /\ export[e].salt = storage.anonSalt
        /\ \A other \in ExportIds : HasKey(other) => export[other].salt = export[e].salt
        /\ ~Occurs(export[e].salt, export[e].csv)

\* the file that an export of the list writes when the texts are redacted
\* as the setting says and the receivers replaced as the request says
FileOf(messages, anonymize, salt, settings) ==
    buildCSV(Rows([j \in 1..Len(messages) |->
                      [messages[j] EXCEPT
                          !.receiver = IF anonymize THEN anonymizeContact(@, salt)
                                       ELSE @,
                          !.text = IF settings.redactPII
                                   THEN redactPII(@, PatternNames) ELSE @]],
                  settings))

(***************************************************************************)
(* C32.  The file of every export, anonymized or not, has the message      *)
(* texts redacted if the setting redactPII is on and as they are if it is  *)
(* off.                                                                    *)
(***************************************************************************)
C32_RedactionIndependent ==
    \A e \in ExportIds : export[e].started =>
        export[e].csv = FileOf(extractedMessages, export[e].anonymize,
                               export[e].salt, export[e].settings)

\* the accumulated list: the one in memory, and when memory holds none
\* (the service worker was restarted) the one in storage
Accumulated ==
    IF Len(extractedMessages) > 0 THEN extractedMessages
    ELSE storage.extractedMessages

NoMessagesError == [kind |-> "error", error |-> ErrNoMessages]

StrategyPanes ==
    LET element(text) == [sender |-> <<"B", "o", "b">>, time |-> "t1", text |-> text]
        group(bodies) == [sender |-> <<"B", "o", "b">>, time |-> "t1", bodies |-> bodies]
    IN  [groups : {<<>>, <<group(<<>>)>>, <<group(<< <<"g">> >>)>>,
                   <<group(<< <<"g">>, <<"h">> >>)>>},
         items : {<<>>, <<element(<<" ">>)>>, <<element(<<"i">>)>>},
         dataX : {<<>>, <<element(<<"x">>)>>}]

StrategyInputs ==
    [fn : {"collectMessages"}, pc : {"input"}, platformId : PlatformIds,
     dom : StrategyPanes, messages : {<<>>}]

CollectFromPane ==
    /\ match.fn = "collectMessages"
    /\ match.pc = "input"
    /\ match' = [match EXCEPT
           !.pc = "done",
           !.messages = collectMessages(match.platformId, match.dom,
                                        SenderName, ContactName, KeyB)]
    /\ UNCHANGED << orchestratorVars, page, ex, scan >>

\* what each strategy yields on the pane
Yield(strategy) ==
    CASE strategy = "grouped" ->
             GroupedMessages(match.platformId, match.dom.groups, SenderName,
                             ContactName, KeyB)
      [] strategy = "flat" ->
             FlatMessages(match.platformId, match.dom.items, SenderName,
                          ContactName, KeyB)
      [] strategy = "probe" ->
             FlatMessages(match.platformId, match.dom.dataX, SenderName,
                          ContactName, KeyB)

(***************************************************************************)
(* C35.  On every platform collectMessages returns what the grouped        *)
(* strategy yields if that is not empty, else what the flat-item strategy  *)
(* yields if that is not empty, else what the direct content probe         *)
(* yields: the list of one strategy, never a mixture, and the probe's      *)
(* whenever the first two yield nothing.                                   *)
(***************************************************************************)
C35_StrategiesInPriorityOrder ==
    match.fn = "collectMessages" /\ match.pc = "done" =>
        match.messages =
            IF Yield("grouped") # <<>> THEN Yield("grouped")
            ELSE IF Yield("flat") # <<>> THEN Yield("flat")
            ELSE Yield("probe")

\* without the probe, the order of the first two strategies
GroupedThenFlat ==
    match.fn = "collectMessages" /\ match.pc = "done" =>
        match.messages =
            IF Yield("grouped") # <<>> THEN Yield("grouped") ELSE Yield("flat")

(***************************************************************************)
(* The specification of the library functions: one application of one of   *)
(* them, on any of the inputs above.                                       *)
(***************************************************************************)
LibraryInputs ==
    QueryInputs \cup ContentScriptInputs \cup RoundTripInputs \cup FilterInputs
    \cup TruncateInputs \cup CsvInputs \cup EscapeInputs
    \cup MergeInputs \cup AnonymizeInputs \cup RedactInputs \cup StrategyInputs

LibraryInit ==
    /\ OrchestratorInit
    /\ page = NoPage
    /\ ex = NoExtraction
    /\ scan = NoScan
    /\ match \in LibraryInputs

LibraryNext ==
    \/ Query
    \/ ContentScriptLoad
    \/ OnMessage
    \/ ScanList
    \/ ScanListAgain
    \/ \E k \in 1..MaxListLen : OpenScanned(k)
    \/ Filter
    \/ Truncate
    \/ BuildCSV
    \/ EscapeField
    \/ Merge
    \/ Anonymize
    \/ Redact
    \/ CollectFromPane

LibrarySpec == LibraryInit /\ [][LibraryNext]_vars

============================================================================
